---- MODULE Spec2Model ----
(***************************************************************************)
(* The in-memory store of the college records application (MemStorage,     *)
(* server/storage.ts) and the HTTP route handlers that drive it            *)
(* (server/routes.ts).                                                     *)
(*                                                                         *)
(* A JavaScript Map is a sequence of entries [k, v] in insertion order.    *)
(* A row is a record; the key it is stored under (k) and its id field are  *)
(* kept apart, because update merges the caller's partial over the whole   *)
(* row, id included.  Rows carry the fields that some lookup, condition or *)
(* computation of the code reads; pure payload (email, profileImage,       *)
(* description, program, department, dates of rows other than events) is   *)
(* not carried.                                                            *)
(***************************************************************************)
EXTENDS Integers, Sequences, FiniteSets, TLC

VARIABLES
    store,       \* the nine Maps of MemStorage, one field per Map
    currentIds,  \* MemStorage.currentIds
    session,     \* req.session.user of each client (express-session)
    call,        \* the operation or request that ran last
    ret,         \* what it returned (its HTTP response, for a request)
    issued,      \* history: per counter, the ids create has returned, in order
    nOps,        \* number of operations run so far
    pending,     \* per client: the request or form submission in progress
    loginFailed  \* history: the session's last login failed

vars ==
    <<store, currentIds, session, call, ret, issued, nOps, pending,
      loginFailed>>

\* Bound on the length of a run.
MaxOps == 3

Tables ==
    {"users", "students", "faculty", "courses", "courseAssignments",
     "enrollments", "attendance", "grades", "events"}

\* The counter of currentIds that each Map draws its keys from.
CounterOf ==
    [users |-> "user", students |-> "student", faculty |-> "faculty",
     courses |-> "course", courseAssignments |-> "courseAssignment",
     enrollments |-> "enrollment", attendance |-> "attendance",
     grades |-> "grade", events |-> "event"]

\* JavaScript's undefined and null.
Undefined == [undefined |-> TRUE]
Null == [null |-> TRUE]

-----------------------------------------------------------------------------
(* JavaScript Map *)

MapHas(m, k) == \E i \in 1..Len(m) : m[i].k = k

MapGet(m, k) ==
    IF MapHas(m, k)
    THEN m[CHOOSE i \in 1..Len(m) : m[i].k = k].v
    ELSE Undefined

\* Mutant of MapSet: a key that is present moves to the end.
MapSetMovesToEnd(m, k, v) ==
    Append(SelectSeq(m, LAMBDA e : e.k # k), [k |-> k, v |-> v])

\* set keeps the position of a key that is present and appends a new one.
MapSet(m, k, v) ==
    IF MapHas(m, k)
    THEN [i \in 1..Len(m) |-> IF m[i].k = k THEN [k |-> k, v |-> v] ELSE m[i]]
    ELSE Append(m, [k |-> k, v |-> v])

MapDelete(m, k) == SelectSeq(m, LAMBDA e : e.k # k)

\* Array.from(map.values())
MapValues(m) == [i \in 1..Len(m) |-> m[i].v]

MapKeys(m) == {m[i].k : i \in 1..Len(m)}

\* Object spread { ...a, ...b }: the fields of b win.
Spread(a, b) ==
    [f \in (DOMAIN a) \cup (DOMAIN b) |-> IF f \in DOMAIN b THEN b[f] ELSE a[f]]

\* Array.prototype.filter and Array.prototype.find over rows.
Filter(rows, P(_)) == SelectSeq(rows, P)

Find(rows, P(_)) ==
    IF \E i \in 1..Len(rows) : P(rows[i])
    THEN rows[CHOOSE i \in 1..Len(rows) :
                 P(rows[i]) /\ \A j \in 1..(i - 1) : ~P(rows[j])]
    ELSE Undefined

\* String.prototype.toLowerCase over the strings of the model.
ToLowerCase(s) ==
    CASE s = "Admin" -> "admin"
      [] s = "ADMIN" -> "admin"
      [] s = "Emma.Wilson" -> "emma.wilson"
      [] OTHER -> s

\* JavaScript truthiness of a string-valued body field.
Truthy(body, f) == f \in DOMAIN body /\ body[f] # ""

-----------------------------------------------------------------------------
(* The seed: MemStorage's constructor and initializeData *)

SeedUsers ==
    << [id |-> 1, username |-> "admin", password |-> "admin123",
        role |-> "admin", name |-> "John Admin"],
       [id |-> 2, username |-> "professor.smith", password |-> "faculty123",
        role |-> "faculty", name |-> "Professor Smith"],
       [id |-> 3, username |-> "professor.johnson", password |-> "faculty123",
        role |-> "faculty", name |-> "Professor Johnson"],
       [id |-> 4, username |-> "emma.wilson", password |-> "student123",
        role |-> "student", name |-> "Emma Wilson"],
       [id |-> 5, username |-> "james.rodriguez", password |-> "student123",
        role |-> "student", name |-> "James Rodriguez"],
       [id |-> 6, username |-> "sophia.chen", password |-> "student123",
        role |-> "student", name |-> "Sophia Chen"],
       [id |-> 7, username |-> "michael.johnson", password |-> "student123",
        role |-> "student", name |-> "Michael Johnson"] >>

SeedFaculty ==
    << [id |-> 1, userId |-> 2, facultyId |-> "FAC1001", status |-> "active"],
       [id |-> 2, userId |-> 3, facultyId |-> "FAC1002", status |-> "active"] >>

SeedStudents ==
    << [id |-> 1, userId |-> 4, studentId |-> "STU1001", yearLevel |-> 3,
        status |-> "active"],
       [id |-> 2, userId |-> 5, studentId |-> "STU1002", yearLevel |-> 2,
        status |-> "active"],
       [id |-> 3, userId |-> 6, studentId |-> "STU1003", yearLevel |-> 4,
        status |-> "on leave"],
       [id |-> 4, userId |-> 7, studentId |-> "STU1004", yearLevel |-> 1,
        status |-> "inactive"] >>

SeedCourses ==
    << [id |-> 1, code |-> "CS101",
        title |-> "Introduction to Computer Science", status |-> "active"],
       [id |-> 2, code |-> "BA200", title |-> "Business Ethics",
        status |-> "active"],
       [id |-> 3, code |-> "PSY101", title |-> "Psychology 101",
        status |-> "active"],
       [id |-> 4, code |-> "EE201", title |-> "Circuit Analysis",
        status |-> "pending"],
       [id |-> 5, code |-> "BIO110", title |-> "Introduction to Biology",
        status |-> "active"] >>

SeedCourseAssignments ==
    << [id |-> 1, courseId |-> 1, facultyId |-> 1, semester |-> "Fall",
        year |-> 2023],
       [id |-> 2, courseId |-> 2, facultyId |-> 2, semester |-> "Fall",
        year |-> 2023],
       [id |-> 3, courseId |-> 3, facultyId |-> 1, semester |-> "Fall",
        year |-> 2023],
       [id |-> 4, courseId |-> 5, facultyId |-> 2, semester |-> "Fall",
        year |-> 2023] >>

SeedEnrollments ==
    << [id |-> 1, studentId |-> 1, courseAssignmentId |-> 1,
        status |-> "enrolled"],
       [id |-> 2, studentId |-> 1, courseAssignmentId |-> 2,
        status |-> "enrolled"],
       [id |-> 3, studentId |-> 2, courseAssignmentId |-> 2,
        status |-> "enrolled"],
       [id |-> 4, studentId |-> 3, courseAssignmentId |-> 1,
        status |-> "enrolled"],
       [id |-> 5, studentId |-> 3, courseAssignmentId |-> 3,
        status |-> "enrolled"],
       [id |-> 6, studentId |-> 4, courseAssignmentId |-> 4,
        status |-> "enrolled"] >>

SeedAttendance ==
    << [id |-> 1, enrollmentId |-> 1, status |-> "present"],
       [id |-> 2, enrollmentId |-> 2, status |-> "present"],
       [id |-> 3, enrollmentId |-> 3, status |-> "late"],
       [id |-> 4, enrollmentId |-> 4, status |-> "absent"],
       [id |-> 5, enrollmentId |-> 5, status |-> "excused"] >>

SeedGrades ==
    << [id |-> 1, enrollmentId |-> 1, assignmentName |-> "Midterm Exam",
        score |-> 85],
       [id |-> 2, enrollmentId |-> 1, assignmentName |-> "Assignment 1",
        score |-> 92],
       [id |-> 3, enrollmentId |-> 2, assignmentName |-> "Midterm Exam",
        score |-> 78],
       [id |-> 4, enrollmentId |-> 3, assignmentName |-> "Midterm Exam",
        score |-> 88] >>

\* startDate is the day of the current month the event starts on.
SeedEvents ==
    << [id |-> 1, title |-> "Faculty Meeting", startDate |-> 15,
        type |-> "administrative"],
       [id |-> 2, title |-> "Science Exhibition", startDate |-> 18,
        type |-> "academic"],
       [id |-> 3, title |-> "Enrollment Deadline", startDate |-> 22,
        type |-> "administrative"] >>

\* create<Entity>Sync applied to each seed row in turn: keys 1, 2, ...
Seeded(rows) == [i \in 1..Len(rows) |-> [k |-> rows[i].id, v |-> rows[i]]]

SeedStore ==
    [users |-> Seeded(SeedUsers), students |-> Seeded(SeedStudents),
     faculty |-> Seeded(SeedFaculty), courses |-> Seeded(SeedCourses),
     courseAssignments |-> Seeded(SeedCourseAssignments),
     enrollments |-> Seeded(SeedEnrollments),
     attendance |-> Seeded(SeedAttendance), grades |-> Seeded(SeedGrades),
     events |-> Seeded(SeedEvents)]

SeedIds ==
    [user |-> Len(SeedUsers) + 1, student |-> Len(SeedStudents) + 1,
     faculty |-> Len(SeedFaculty) + 1, course |-> Len(SeedCourses) + 1,
     courseAssignment |-> Len(SeedCourseAssignments) + 1,
     enrollment |-> Len(SeedEnrollments) + 1,
     attendance |-> Len(SeedAttendance) + 1, grade |-> Len(SeedGrades) + 1,
     event |-> Len(SeedEvents) + 1]

-----------------------------------------------------------------------------
(* MemStorage: the per-entity operations.  The nine entity types share one  *)
(* body each for get, create, update and delete; T names the Map.           *)

\* What an operation hands back: its return value and the storage after it.
Result(r, s, ids, iss) ==
    [ret |-> r, store |-> s, currentIds |-> ids, issued |-> iss]

\* get<Entity>(id)
get(T, id) == MapGet(store[T], id)

\* getAll<Entity>()
getAll(T) == MapValues(store[T])

\* Mutant of NextId: the id is taken from the size of the Map.
NextIdFromSize(T) == Len(store[T]) + 1

\* const id = this.currentIds.<entity>++ : the value id receives.
NextId(T) == currentIds[CounterOf[T]]

\* Mutant of create: a course whose code is already stored is rejected.
createUnlessDuplicate(T, data) ==
    LET id == NextId(T)
        newRow == Spread(data, [id |-> id])
    IN  IF T = "courses"
           /\ \E i \in 1..Len(store[T]) : store[T][i].v.code = data.code
        THEN Result(Undefined, store, currentIds, issued)
        ELSE Result(newRow,
                    [store EXCEPT ![T] = MapSet(@, id, newRow)],
                    [currentIds EXCEPT ![CounterOf[T]] = @ + 1],
                    [issued EXCEPT ![CounterOf[T]] = Append(@, id)])

\* create<Entity>(data)
create(T, data) ==
    LET id == NextId(T)
        newRow == Spread(data, [id |-> id])
    IN  Result(newRow,
               [store EXCEPT ![T] = MapSet(@, id, newRow)],
               [currentIds EXCEPT ![CounterOf[T]] = @ + 1],
               [issued EXCEPT ![CounterOf[T]] = Append(@, id)])

\* Mutant of update: the spread is written the wrong way round, so the stored
\* fields win over the partial.
updateRowWins(T, id, partial) ==
    LET row == MapGet(store[T], id)
    IN  IF row = Undefined
        THEN Result(Undefined, store, currentIds, issued)
        ELSE LET updated == Spread(partial, row)
             IN  Result(updated, [store EXCEPT ![T] = MapSet(@, id, updated)],
                        currentIds, issued)

\* Mutant of update: no check that the row is there, so update inserts.
updateUpsert(T, id, partial) ==
    LET row == MapGet(store[T], id)
        updated == IF row = Undefined THEN partial ELSE Spread(row, partial)
    IN  Result(updated, [store EXCEPT ![T] = MapSet(@, id, updated)],
               currentIds, issued)

\* update<Entity>(id, partial)
update(T, id, partial) ==
    LET row == get(T, id)
    IN  IF row = Undefined
        THEN Result(Undefined, store, currentIds, issued)
        ELSE LET updated == Spread(row, partial)
             IN  Result(updated, [store EXCEPT ![T] = MapSet(@, id, updated)],
                        currentIds, issued)

\* Mutant of delete: the result of Map.delete is dropped and true returned.
deleteAlwaysTrue(T, id) ==
    Result(TRUE, [store EXCEPT ![T] = MapDelete(@, id)], currentIds, issued)

\* Mutant of delete: deleting a course assignment also removes the
\* enrollments that reference it.
deleteCascade(T, id) ==
    Result(MapHas(store[T], id),
           [store EXCEPT
               ![T] = MapDelete(@, id),
               !["enrollments"] =
                   IF T = "courseAssignments"
                   THEN SelectSeq(@, LAMBDA e : e.v.courseAssignmentId # id)
                   ELSE @],
           currentIds, issued)

\* delete<Entity>(id)
delete(T, id) ==
    Result(MapHas(store[T], id), [store EXCEPT ![T] = MapDelete(@, id)],
           currentIds, issued)

(* Secondary-key lookups *)

\* Mutant of getUserByUsername: the comparison is exact.
getUserByUsernameExact(username) ==
    Find(getAll("users"), LAMBDA user : user.username = username)

getUserByUsername(username) ==
    Find(getAll("users"),
         LAMBDA user : ToLowerCase(user.username) = ToLowerCase(username))

\* Mutant of getStudentByStudentId: the last match is returned.
getStudentByStudentIdLast(studentId) ==
    LET rows == getAll("students")
        M == {i \in 1..Len(rows) : rows[i].studentId = studentId}
    IN  IF M = {} THEN Undefined
        ELSE rows[CHOOSE i \in M : \A j \in M : j <= i]

getStudentByStudentId(studentId) ==
    Find(getAll("students"), LAMBDA student : student.studentId = studentId)

getStudentByUserId(userId) ==
    Find(getAll("students"), LAMBDA student : student.userId = userId)

getFacultyByFacultyId(facultyId) ==
    Find(getAll("faculty"), LAMBDA f : f.facultyId = facultyId)

getFacultyByUserId(userId) ==
    Find(getAll("faculty"), LAMBDA f : f.userId = userId)

getCourseByCode(code) ==
    Find(getAll("courses"), LAMBDA course : course.code = code)

(* Relationship queries *)

getCourseAssignmentsByCourse(courseId) ==
    Filter(getAll("courseAssignments"), LAMBDA a : a.courseId = courseId)

getCourseAssignmentsByFaculty(facultyId) ==
    Filter(getAll("courseAssignments"), LAMBDA a : a.facultyId = facultyId)

getEnrollmentsByStudent(studentId) ==
    Filter(getAll("enrollments"), LAMBDA e : e.studentId = studentId)

getEnrollmentsByCourseAssignment(courseAssignmentId) ==
    Filter(getAll("enrollments"),
           LAMBDA e : e.courseAssignmentId = courseAssignmentId)

getAttendanceByEnrollment(enrollmentId) ==
    Filter(getAll("attendance"), LAMBDA a : a.enrollmentId = enrollmentId)

getGradesByEnrollment(enrollmentId) ==
    Filter(getAll("grades"), LAMBDA g : g.enrollmentId = enrollmentId)

(* getStudentDetails *)

\* Mutant of EnrollmentBlock: no early return for an assignment that is gone,
\* so a dangling enrollment still yields a block.
EnrollmentBlockNoCheck(enrollment) ==
    [enrollment |-> enrollment,
     course |-> Undefined,
     faculty |-> Undefined,
     facultyName |-> Undefined,
     attendance |-> getAttendanceByEnrollment(enrollment.id),
     grades |-> getGradesByEnrollment(enrollment.id)]

\* The callback of enrollments.map(...): the block of one enrollment, or null.
EnrollmentBlock(enrollment) ==
    LET courseAssignment == get("courseAssignments", enrollment.courseAssignmentId)
    IN  IF courseAssignment = Undefined
        THEN Null
        ELSE LET course == get("courses", courseAssignment.courseId)
                 facultyMember == get("faculty", courseAssignment.facultyId)
                 facultyUser == IF facultyMember # Undefined
                                THEN get("users", facultyMember.userId)
                                ELSE Null
             IN  [enrollment |-> enrollment,
                  course |-> course,
                  faculty |-> facultyMember,
                  facultyName |-> IF facultyUser \in {Undefined, Null}
                                  THEN Undefined
                                  ELSE [name |-> facultyUser.name],
                  attendance |-> getAttendanceByEnrollment(enrollment.id),
                  grades |-> getGradesByEnrollment(enrollment.id),
                  semester |-> courseAssignment.semester,
                  year |-> courseAssignment.year]

\* Mutant of getStudentDetails: the check of the student's user is missing.
getStudentDetailsNoUserCheck(id) ==
    LET student == get("students", id)
    IN  IF student = Undefined
        THEN Null
        ELSE LET enrollments == getEnrollmentsByStudent(id)
                 blocks == [i \in 1..Len(enrollments) |->
                               EnrollmentBlock(enrollments[i])]
             IN  [student |-> student,
                  user |-> get("users", student.userId),
                  enrollments |-> Filter(blocks, LAMBDA b : b # Null)]

getStudentDetails(id) ==
    LET student == get("students", id)
    IN  IF student = Undefined
        THEN Null
        ELSE LET user == get("users", student.userId)
             IN  IF user = Undefined
                 THEN Null
                 ELSE LET enrollments == getEnrollmentsByStudent(id)
                          blocks == [i \in 1..Len(enrollments) |->
                                        EnrollmentBlock(enrollments[i])]
                      IN  [student |-> student,
                           user |-> user,
                           enrollments |->
                               Filter(blocks, LAMBDA b : b # Null)]

(* getUpcomingEvents *)

\* Array.prototype.sort with (a, b) => a.startDate - b.startDate.  The sort
\* is stable, so its result is the one an insertion sort produces: a row goes
\* behind every row already placed that does not start later.
InsertByStartDate(sorted, event) ==
    LET n == Cardinality({i \in 1..Len(sorted) :
                             sorted[i].startDate <= event.startDate})
    IN  SubSeq(sorted, 1, n) \o <<event>> \o SubSeq(sorted, n + 1, Len(sorted))

RECURSIVE sortByStartDate(_)
sortByStartDate(rows) ==
    IF rows = <<>> THEN <<>>
    ELSE InsertByStartDate(sortByStartDate(SubSeq(rows, 1, Len(rows) - 1)),
                           rows[Len(rows)])

\* Mutant of getUpcomingEvents: an event starting at the time of the call
\* is kept.
getUpcomingEventsFromNow(now) ==
    sortByStartDate(
        Filter(getAll("events"), LAMBDA event : event.startDate >= now))

\* getUpcomingEvents(); now is the value of new Date() at the call.
getUpcomingEvents(now) ==
    sortByStartDate(
        Filter(getAll("events"), LAMBDA event : event.startDate > now))

(* getDashboardStats *)

\* Mutant of toFixed1: the digits after the first decimal are cut off.
toFixed1Truncated(count, total) == (1000 * count) \div total

\* parseFloat(((count / total) * 100).toFixed(1)), in tenths: 600 is 60.0.
\* toFixed rounds to the nearest tenth and a value halfway between two tenths
\* up.  Such a value is a dyadic rational, which the floating-point division
\* produces exactly; any other quotient is farther from a halfway point than
\* the error of the division.
toFixed1(count, total) == (2000 * count + total) \div (2 * total)

\* total > 0 ? (count / total) * 100 : 0, then rounded by toFixed(1)
Percentage(count, total) == IF total > 0 THEN toFixed1(count, total) ELSE 0

\* for (const assignment of assignments) studentCount += ...length
RECURSIVE studentCountOf(_)
studentCountOf(assignments) ==
    IF assignments = <<>> THEN 0
    ELSE studentCountOf(Tail(assignments))
         + Len(getEnrollmentsByCourseAssignment(Head(assignments).id))

\* Mutant of CourseWithEnrollments: only the enrollments with status
\* "enrolled" are counted.
CourseWithEnrolledOnly(course) ==
    LET assignments == getCourseAssignmentsByCourse(course.id)
        enrollments == getAll("enrollments")
    IN  [id |-> course.id, code |-> course.code, title |-> course.title,
         studentCount |->
            Cardinality({i \in 1..Len(enrollments) :
                /\ enrollments[i].status = "enrolled"
                /\ \E j \in 1..Len(assignments) :
                      assignments[j].id = enrollments[i].courseAssignmentId})]

\* The callback of courses.map in getDashboardStats.
CourseWithEnrollments(course) ==
    LET assignments == getCourseAssignmentsByCourse(course.id)
    IN  [id |-> course.id, code |-> course.code, title |-> course.title,
         studentCount |-> studentCountOf(assignments)]

\* Mutant of InsertByStudentCount: a row goes in front of the rows with the
\* same count, so ties come out in reverse order.
InsertByStudentCountTiesFirst(sorted, row) ==
    LET n == Cardinality({i \in 1..Len(sorted) :
                             sorted[i].studentCount > row.studentCount})
    IN  SubSeq(sorted, 1, n) \o <<row>> \o SubSeq(sorted, n + 1, Len(sorted))

\* Array.prototype.sort with (a, b) => b.studentCount - a.studentCount,
\* stable: a row goes behind every row already placed whose count is not
\* smaller.
InsertByStudentCount(sorted, row) ==
    LET n == Cardinality({i \in 1..Len(sorted) :
                             sorted[i].studentCount >= row.studentCount})
    IN  SubSeq(sorted, 1, n) \o <<row>> \o SubSeq(sorted, n + 1, Len(sorted))

RECURSIVE sortByStudentCount(_)
sortByStudentCount(rows) ==
    IF rows = <<>> THEN <<>>
    ELSE InsertByStudentCount(
             sortByStudentCount(SubSeq(rows, 1, Len(rows) - 1)),
             rows[Len(rows)])

\* Array.prototype.slice(0, n)
slice(rows, n) == SubSeq(rows, 1, IF Len(rows) < n THEN Len(rows) ELSE n)

\* Mutant of CountStatus: every course that is not archived counts as
\* active.
CountStatusLoose(rows, status) ==
    Len(SelectSeq(rows, LAMBDA c : IF status = "active"
                                   THEN c.status # "archived"
                                   ELSE c.status = status))

\* rows.filter(c => c.status === status).length
CountStatus(rows, status) == Len(SelectSeq(rows, LAMBDA c : c.status = status))

\* getDashboardStats after its four scans.
DashboardStats(students, facultyMembers, courses, allAttendance) ==
    LET totalAttendanceRecords == Len(allAttendance)
        presentAttendance ==
            Len(SelectSeq(allAttendance,
                          LAMBDA record : \/ record.status = "present"
                                          \/ record.status = "late"))
        activeCourses == CountStatus(courses, "active")
        pendingCourses == CountStatus(courses, "pending")
        archivedCourses == CountStatus(courses, "archived")
        totalCourses == Len(courses)
        coursesWithEnrollments ==
            [i \in 1..Len(courses) |-> CourseWithEnrollments(courses[i])]
        popularCourses == slice(sortByStudentCount(coursesWithEnrollments), 3)
    IN  [totalStudents |-> Len(students),
         totalFaculty |-> Len(facultyMembers),
         totalCourses |-> Len(courses),
         activeCourses |-> activeCourses,
         attendanceRate |->
            Percentage(presentAttendance, totalAttendanceRecords),
         courseStatistics |->
            [active |-> [count |-> activeCourses,
                         percentage |-> Percentage(activeCourses, totalCourses)],
             pending |-> [count |-> pendingCourses,
                          percentage |-> Percentage(pendingCourses, totalCourses)],
             archived |-> [count |-> archivedCourses,
                           percentage |->
                               Percentage(archivedCourses, totalCourses)]],
         popularCourses |-> popularCourses]

\* Mutant of getDashboardStats: only the active students are counted.
getDashboardStatsActiveStudents ==
    DashboardStats(SelectSeq(getAll("students"),
                             LAMBDA student : student.status = "active"),
                   getAll("faculty"), getAll("courses"),
                   getAll("attendance"))

getDashboardStats ==
    DashboardStats(getAll("students"), getAll("faculty"), getAll("courses"),
                   getAll("attendance"))

-----------------------------------------------------------------------------
(* Inputs: the rows, partials and ids that callers pass *)

\* Insert data (what the insert schemas accept: every column but id).
NewRows ==
    [users |->
        {[username |-> "Admin", password |-> "admin123", role |-> "faculty",
          name |-> "Eve Admin"],
         [username |-> "new.user", password |-> "student123",
          role |-> "student", name |-> "New User"]},
     students |->
        {[userId |-> 8, studentId |-> "STU2001", yearLevel |-> 1,
          status |-> "active"],
         [userId |-> 8, studentId |-> "STU1001", yearLevel |-> 1,
          status |-> "active"]},
     faculty |->
        {[userId |-> 2, facultyId |-> "FAC2001", status |-> "active"]},
     courses |->
        {[code |-> "CS101", title |-> "Computer Science I",
          status |-> "active"],
         [code |-> "MATH101", title |-> "Calculus", status |-> "pending"]},
     courseAssignments |->
        {[courseId |-> 1, facultyId |-> 2, semester |-> "Spring",
          year |-> 2024],
         [courseId |-> 6, facultyId |-> 1, semester |-> "Spring",
          year |-> 2024]},
     enrollments |->
        {[studentId |-> 1, courseAssignmentId |-> 1, status |-> "enrolled"],
         [studentId |-> 1, courseAssignmentId |-> 3, status |-> "enrolled"]},
     attendance |-> {[enrollmentId |-> 1, status |-> "absent"]},
     grades |->
        {[enrollmentId |-> 1, assignmentName |-> "Final Exam", score |-> 90]},
     events |->
        {[title |-> "Orientation", startDate |-> 25, type |-> "academic"]}]

\* Partial rows (a PUT body is passed to update as it arrives).
Partials ==
    [users |->
        {[username |-> ""], [username |-> "ADMIN"], [role |-> "admin"],
         [role |-> ""], [id |-> 2]},
     students |->
        {[status |-> "inactive"], [userId |-> 4], [studentId |-> "STU1001"]},
     faculty |->
        {[status |-> "on leave"], [userId |-> 2], [facultyId |-> "FAC1001"]},
     courses |->
        {[status |-> "archived"], [code |-> "CS101"], [code |-> ""]},
     courseAssignments |-> {[facultyId |-> 2]},
     enrollments |-> {[status |-> "dropped"], [courseAssignmentId |-> 1]},
     attendance |-> {[status |-> "late"]},
     grades |-> {[score |-> 70]},
     events |-> {[startDate |-> 5], [startDate |-> 20]}]

\* Ids named by callers: seeded rows and, last in each set, the first id that
\* the seed leaves free.
IdArgs ==
    [users |-> {1, 2, 4, 8}, students |-> {1, 2, 5}, faculty |-> {1, 2, 3},
     courses |-> {1, 2, 6}, courseAssignments |-> {1, 2, 5},
     enrollments |-> {1, 2, 7}, attendance |-> {1, 6}, grades |-> {1, 5},
     events |-> {1, 4}]

Clients == {"c1", "c2"}

-----------------------------------------------------------------------------
(* Initial state: the storage singleton after construction, no session *)

Init ==
    /\ store = SeedStore
    /\ currentIds = SeedIds
    /\ session = [c \in Clients |-> Undefined]
    /\ call = [op |-> "init"]
    /\ ret = Undefined
    /\ issued = [c \in {CounterOf[T] : T \in Tables} |->
                    [i \in 1..(SeedIds[c] - 1) |-> i]]
    /\ nOps = 0
    /\ pending = [c \in Clients |-> Undefined]
    /\ loginFailed = [c \in Clients |-> FALSE]

\* The storage after an operation that handed back r.
Apply(r) ==
    /\ store' = r.store
    /\ currentIds' = r.currentIds
    /\ issued' = r.issued
    /\ ret' = r.ret
    /\ nOps' = nOps + 1

\* An operation that runs from start to end in one step.
Commit(r) ==
    /\ Apply(r)
    /\ UNCHANGED pending

-----------------------------------------------------------------------------
(* The storage interface called directly *)

Create(T, data) ==
    /\ nOps < MaxOps
    /\ call' = [op |-> "create", table |-> T, data |-> data]
    /\ Commit(create(T, data))
    /\ UNCHANGED <<session, loginFailed>>

Update(T, id, partial) ==
    /\ nOps < MaxOps
    /\ call' = [op |-> "update", table |-> T, id |-> id, partial |-> partial]
    /\ Commit(update(T, id, partial))
    /\ UNCHANGED <<session, loginFailed>>

Delete(T, id) ==
    /\ nOps < MaxOps
    /\ call' = [op |-> "delete", table |-> T, id |-> id]
    /\ Commit(delete(T, id))
    /\ UNCHANGED <<session, loginFailed>>

GetStudentDetails(id) ==
    /\ nOps < MaxOps
    /\ call' = [op |-> "getStudentDetails", id |-> id]
    /\ Commit(Result(getStudentDetails(id), store, currentIds, issued))
    /\ UNCHANGED <<session, loginFailed>>

Next ==
    \/ \E T \in Tables : \E data \in NewRows[T] : Create(T, data)
    \/ \E T \in Tables : \E id \in IdArgs[T] : \E partial \in Partials[T] :
          Update(T, id, partial)
    \/ \E T \in Tables : \E id \in IdArgs[T] : Delete(T, id)
    \/ \E id \in IdArgs["students"] : GetStudentDetails(id)

Spec == Init /\ [][Next]_vars

-----------------------------------------------------------------------------
(* server/routes.ts: middleware and responses *)

\* res.status(status).json(body)
Resp(status, body) == [status |-> status, body |-> body]

Message(text) == [message |-> text]

\* A response that leaves the storage as it is.
Reply(status, body) == Result(Resp(status, body), store, currentIds, issued)

\* A response after a storage operation that handed back r.
ReplyAfter(r, status, body) ==
    Result(Resp(status, body), r.store, r.currentIds, r.issued)

\* requireAuth, then requireRole(roles) where the route has it: the status the
\* middleware answers with, or 0 when it calls next().
AllRoles == {"admin", "faculty", "student"}

requireAuth(c) == IF session[c] = Undefined THEN 401 ELSE 0

requireRole(c, roles) ==
    IF session[c] = Undefined THEN 401
    ELSE IF session[c].role \notin roles THEN 403
    ELSE 0

Denied(status) ==
    Reply(status, Message(IF status = 401 THEN "Authentication required"
                          ELSE "Access denied"))

\* The user fields that the user, student and faculty routes send back.
PublicUser(u) ==
    [id |-> u.id, username |-> u.username, name |-> u.name, role |-> u.role]

UserOrNull(u) == IF u = Undefined THEN Null ELSE PublicUser(u)

(* Auth routes *)

Credentials ==
    {[username |-> "admin", password |-> "admin123"],
     [username |-> "Emma.Wilson", password |-> "student123"],
     [username |-> "professor.smith", password |-> "faculty123"],
     [username |-> "admin", password |-> "Admin123"]}

\* Mutant of getUserByCredentials: the password is not compared.
getUserByCredentialsAnyPassword(credentials) ==
    getUserByUsername(credentials.username)

getUserByCredentials(credentials) ==
    Find(getAll("users"),
         LAMBDA user :
            /\ ToLowerCase(user.username) = ToLowerCase(credentials.username)
            /\ user.password = credentials.password)

\* Mutant of PostLogin: a failed login destroys the session.
PostLoginFailureEndsSession(c, credentials) ==
    LET user == getUserByCredentials(credentials)
    IN  IF user = Undefined
        THEN [reply |-> Reply(401, Message("Invalid username or password")),
              user |-> Undefined]
        ELSE [reply |-> Reply(200, PublicUser(user)),
              user |-> [id |-> user.id, username |-> user.username,
                        role |-> user.role, name |-> user.name]]

\* POST /api/auth/login: the response and the session user it leaves.
PostLogin(c, credentials) ==
    LET user == getUserByCredentials(credentials)
    IN  IF user = Undefined
        THEN [reply |-> Reply(401, Message("Invalid username or password")),
              user |-> session[c]]
        ELSE [reply |-> Reply(200, PublicUser(user)),
              user |-> [id |-> user.id, username |-> user.username,
                        role |-> user.role, name |-> user.name]]

(* User routes *)

\* POST /api/users
PostUsers(c, userData) ==
    LET denied == requireRole(c, {"admin"})
    IN  IF denied # 0 THEN Denied(denied)
        ELSE IF getUserByUsername(userData.username) # Undefined
        THEN Reply(400, Message("Username already exists"))
        ELSE LET r == create("users", userData)
             IN  ReplyAfter(r, 201, PublicUser(r.ret))

\* PUT /api/users/:id
PutUser(c, id, body) ==
    LET denied == requireAuth(c)
        user == get("users", id)
        existingUser == getUserByUsername(body.username)
    IN  IF denied # 0 THEN Denied(denied)
        ELSE IF user = Undefined THEN Reply(404, Message("User not found"))
        ELSE IF session[c].role # "admin" /\ session[c].id # id
        THEN Reply(403, Message("Access denied"))
        ELSE IF /\ Truthy(body, "username")
                /\ body.username # user.username
                /\ existingUser # Undefined
                /\ existingUser.id # id
        THEN Reply(400, Message("Username already exists"))
        ELSE IF /\ Truthy(body, "role")
                /\ body.role # user.role
                /\ session[c].role # "admin"
        THEN Reply(403, Message("Cannot change role"))
        ELSE LET r == update("users", id, body)
             IN  IF r.ret = Undefined
                 THEN Reply(500, Message("Failed to update user"))
                 ELSE ReplyAfter(r, 200, PublicUser(r.ret))

\* DELETE /api/users/:id
DeleteUser(c, id) ==
    LET denied == requireRole(c, {"admin"})
        r == delete("users", id)
    IN  IF denied # 0 THEN Denied(denied)
        ELSE IF session[c].id = id
        THEN Reply(400, Message("Cannot delete your own account"))
        ELSE IF ~r.ret THEN Reply(404, Message("User not found"))
        ELSE ReplyAfter(r, 200, Message("User deleted successfully"))

(* Routes that share a body *)

\* DELETE /api/<entity>/:id for every entity but users.
DeleteRoute(c, roles, T, id) ==
    LET denied == requireRole(c, roles)
        r == delete(T, id)
    IN  IF denied # 0 THEN Denied(denied)
        ELSE IF ~r.ret THEN Reply(404, Message("not found"))
        ELSE ReplyAfter(r, 200, Message("deleted successfully"))

\* PUT /api/<entity>/:id without a uniqueness check.
PutRoute(c, roles, T, id, body) ==
    LET denied == requireRole(c, roles)
        r == update(T, id, body)
    IN  IF denied # 0 THEN Denied(denied)
        ELSE IF get(T, id) = Undefined THEN Reply(404, Message("not found"))
        ELSE IF r.ret = Undefined THEN Reply(500, Message("Failed to update"))
        ELSE ReplyAfter(r, 200, r.ret)

(* Student routes *)

\* GET /api/students/:id
GetStudent(c, id) ==
    LET denied == requireAuth(c)
        studentDetails == getStudentDetails(id)
    IN  IF denied # 0 THEN Denied(denied)
        ELSE IF studentDetails = Null
        THEN Reply(404, Message("Student not found"))
        ELSE Reply(200, studentDetails)

\* POST /api/students
PostStudents(c, studentData) ==
    LET denied == requireRole(c, {"admin"})
        user == get("users", studentData.userId)
    IN  IF denied # 0 THEN Denied(denied)
        ELSE IF user = Undefined THEN Reply(400, Message("User not found"))
        ELSE IF user.role # "student"
        THEN Reply(400, Message("User is not a student"))
        ELSE IF getStudentByStudentId(studentData.studentId) # Undefined
        THEN Reply(400, Message("Student ID already exists"))
        ELSE IF getStudentByUserId(studentData.userId) # Undefined
        THEN Reply(400, Message("User already has a student profile"))
        ELSE LET r == create("students", studentData)
             IN  ReplyAfter(r, 201, Spread(r.ret, [user |-> PublicUser(user)]))

\* PUT /api/students/:id
PutStudent(c, id, body) ==
    LET denied == requireRole(c, {"admin"})
        student == get("students", id)
        existingStudent == getStudentByStudentId(body.studentId)
    IN  IF denied # 0 THEN Denied(denied)
        ELSE IF student = Undefined
        THEN Reply(404, Message("Student not found"))
        ELSE IF /\ Truthy(body, "studentId")
                /\ body.studentId # student.studentId
                /\ existingStudent # Undefined
                /\ existingStudent.id # id
        THEN Reply(400, Message("Student ID already exists"))
        ELSE LET r == update("students", id, body)
             IN  IF r.ret = Undefined
                 THEN Reply(500, Message("Failed to update student"))
                 ELSE LET rowUser == MapGet(r.store.users, r.ret.userId)
                      IN  ReplyAfter(r, 200,
                              Spread(r.ret, [user |-> UserOrNull(rowUser)]))

\* DELETE /api/students/:id
DeleteStudent(c, id) == DeleteRoute(c, {"admin"}, "students", id)

(* Faculty routes *)

\* GET /api/faculty/:id
GetFaculty(c, id) ==
    LET denied == requireAuth(c)
        faculty == get("faculty", id)
        user == get("users", faculty.userId)
        courseAssignments == getCourseAssignmentsByFaculty(id)
        courses == [i \in 1..Len(courseAssignments) |->
                       Spread(courseAssignments[i],
                              [course |-> get("courses",
                                              courseAssignments[i].courseId)])]
    IN  IF denied # 0 THEN Denied(denied)
        ELSE IF faculty = Undefined
        THEN Reply(404, Message("Faculty member not found"))
        ELSE Reply(200, Spread(faculty, [user |-> UserOrNull(user),
                                         courses |-> courses]))

\* POST /api/faculty
PostFaculty(c, facultyData) ==
    LET denied == requireRole(c, {"admin"})
        user == get("users", facultyData.userId)
    IN  IF denied # 0 THEN Denied(denied)
        ELSE IF user = Undefined THEN Reply(400, Message("User not found"))
        ELSE IF user.role # "faculty"
        THEN Reply(400, Message("User is not faculty"))
        ELSE IF getFacultyByFacultyId(facultyData.facultyId) # Undefined
        THEN Reply(400, Message("Faculty ID already exists"))
        ELSE IF getFacultyByUserId(facultyData.userId) # Undefined
        THEN Reply(400, Message("User already has a faculty profile"))
        ELSE LET r == create("faculty", facultyData)
             IN  ReplyAfter(r, 201, Spread(r.ret, [user |-> PublicUser(user)]))

\* PUT /api/faculty/:id
PutFaculty(c, id, body) ==
    LET denied == requireRole(c, {"admin"})
        faculty == get("faculty", id)
        existingFaculty == getFacultyByFacultyId(body.facultyId)
    IN  IF denied # 0 THEN Denied(denied)
        ELSE IF faculty = Undefined
        THEN Reply(404, Message("Faculty member not found"))
        ELSE IF /\ Truthy(body, "facultyId")
                /\ body.facultyId # faculty.facultyId
                /\ existingFaculty # Undefined
                /\ existingFaculty.id # id
        THEN Reply(400, Message("Faculty ID already exists"))
        ELSE LET r == update("faculty", id, body)
             IN  IF r.ret = Undefined
                 THEN Reply(500, Message("Failed to update faculty member"))
                 ELSE LET rowUser == MapGet(r.store.users, r.ret.userId)
                      IN  ReplyAfter(r, 200,
                              Spread(r.ret, [user |-> UserOrNull(rowUser)]))

\* DELETE /api/faculty/:id
DeleteFaculty(c, id) == DeleteRoute(c, {"admin"}, "faculty", id)

(* Course routes *)

\* Mutant of GetCourse: faculty.userId is read without the check that the
\* faculty row is there, so a missing faculty row throws and the catch block
\* answers 500.
GetCourseThrows(c, id) ==
    LET denied == requireAuth(c)
        course == get("courses", id)
        courseAssignments == getCourseAssignmentsByCourse(id)
    IN  IF denied # 0 THEN Denied(denied)
        ELSE IF course = Undefined
        THEN Reply(404, Message("Course not found"))
        ELSE IF \E i \in 1..Len(courseAssignments) :
                   get("faculty", courseAssignments[i].facultyId) = Undefined
        THEN Reply(500, Message("Failed to retrieve course"))
        ELSE Reply(200, Spread(course, [assignments |-> courseAssignments]))

\* GET /api/courses/:id
GetCourse(c, id) ==
    LET denied == requireAuth(c)
        course == get("courses", id)
        courseAssignments == getCourseAssignmentsByCourse(id)
        WithFaculty(assignment) ==
            LET faculty == get("faculty", assignment.facultyId)
                user == IF faculty # Undefined
                        THEN get("users", faculty.userId)
                        ELSE Null
            IN  Spread(assignment,
                       [faculty |-> faculty,
                        facultyName |-> IF user \in {Undefined, Null}
                                        THEN Undefined
                                        ELSE [name |-> user.name]])
    IN  IF denied # 0 THEN Denied(denied)
        ELSE IF course = Undefined
        THEN Reply(404, Message("Course not found"))
        ELSE Reply(200,
                   Spread(course,
                          [assignments |->
                              [i \in 1..Len(courseAssignments) |->
                                  WithFaculty(courseAssignments[i])]]))

\* POST /api/courses
PostCourses(c, courseData) ==
    LET denied == requireRole(c, {"admin"})
    IN  IF denied # 0 THEN Denied(denied)
        ELSE IF getCourseByCode(courseData.code) # Undefined
        THEN Reply(400, Message("Course code already exists"))
        ELSE LET r == create("courses", courseData)
             IN  ReplyAfter(r, 201, r.ret)

\* PUT /api/courses/:id
PutCourse(c, id, body) ==
    LET denied == requireRole(c, {"admin"})
        course == get("courses", id)
        existingCourse == getCourseByCode(body.code)
    IN  IF denied # 0 THEN Denied(denied)
        ELSE IF course = Undefined
        THEN Reply(404, Message("Course not found"))
        ELSE IF /\ Truthy(body, "code")
                /\ body.code # course.code
                /\ existingCourse # Undefined
                /\ existingCourse.id # id
        THEN Reply(400, Message("Course code already exists"))
        ELSE LET r == update("courses", id, body)
             IN  IF r.ret = Undefined
                 THEN Reply(500, Message("Failed to update course"))
                 ELSE ReplyAfter(r, 200, r.ret)

\* DELETE /api/courses/:id
DeleteCourse(c, id) == DeleteRoute(c, {"admin"}, "courses", id)

(* Course assignment routes *)

\* POST /api/course-assignments
PostCourseAssignments(c, assignmentData) ==
    LET denied == requireRole(c, {"admin"})
    IN  IF denied # 0 THEN Denied(denied)
        ELSE IF get("courses", assignmentData.courseId) = Undefined
        THEN Reply(400, Message("Course not found"))
        ELSE IF get("faculty", assignmentData.facultyId) = Undefined
        THEN Reply(400, Message("Faculty member not found"))
        ELSE LET r == create("courseAssignments", assignmentData)
             IN  ReplyAfter(r, 201, r.ret)

\* DELETE /api/course-assignments/:id
DeleteCourseAssignment(c, id) ==
    DeleteRoute(c, {"admin"}, "courseAssignments", id)

(* Enrollment routes *)

\* POST /api/enrollments
PostEnrollments(c, enrollmentData) ==
    LET denied == requireRole(c, {"admin"})
        enrollments == getEnrollmentsByStudent(enrollmentData.studentId)
        alreadyEnrolled ==
            \E i \in 1..Len(enrollments) :
                /\ enrollments[i].courseAssignmentId =
                       enrollmentData.courseAssignmentId
                /\ enrollments[i].status = "enrolled"
    IN  IF denied # 0 THEN Denied(denied)
        ELSE IF get("students", enrollmentData.studentId) = Undefined
        THEN Reply(400, Message("Student not found"))
        ELSE IF get("courseAssignments", enrollmentData.courseAssignmentId)
                    = Undefined
        THEN Reply(400, Message("Course assignment not found"))
        ELSE IF alreadyEnrolled
        THEN Reply(400, Message("Student is already enrolled in this course"))
        ELSE LET r == create("enrollments", enrollmentData)
             IN  ReplyAfter(r, 201, r.ret)

\* PUT /api/enrollments/:id
PutEnrollment(c, id, body) ==
    PutRoute(c, {"admin", "faculty"}, "enrollments", id, body)

\* DELETE /api/enrollments/:id
DeleteEnrollment(c, id) == DeleteRoute(c, {"admin"}, "enrollments", id)

(* Attendance and grade routes *)

\* Mutant of PostForEnrollment: the enrollment is not looked up.
PostForEnrollmentUnchecked(c, T, data) ==
    LET denied == requireRole(c, {"admin", "faculty"})
    IN  IF denied # 0 THEN Denied(denied)
        ELSE LET r == create(T, data)
             IN  ReplyAfter(r, 201, r.ret)

\* POST /api/attendance and POST /api/grades: the enrollment must exist.
PostForEnrollment(c, T, data) ==
    LET denied == requireRole(c, {"admin", "faculty"})
    IN  IF denied # 0 THEN Denied(denied)
        ELSE IF get("enrollments", data.enrollmentId) = Undefined
        THEN Reply(400, Message("Enrollment not found"))
        ELSE LET r == create(T, data)
             IN  ReplyAfter(r, 201, r.ret)

PostAttendance(c, attendanceData) ==
    PostForEnrollment(c, "attendance", attendanceData)

PutAttendance(c, id, body) ==
    PutRoute(c, {"admin", "faculty"}, "attendance", id, body)

DeleteAttendance(c, id) ==
    DeleteRoute(c, {"admin", "faculty"}, "attendance", id)

PostGrades(c, gradeData) == PostForEnrollment(c, "grades", gradeData)

PutGrade(c, id, body) == PutRoute(c, {"admin", "faculty"}, "grades", id, body)

DeleteGrade(c, id) == DeleteRoute(c, {"admin", "faculty"}, "grades", id)

(* Event routes *)

\* POST /api/events
PostEvents(c, eventData) ==
    LET denied == requireRole(c, {"admin"})
    IN  IF denied # 0 THEN Denied(denied)
        ELSE LET r == create("events", eventData)
             IN  ReplyAfter(r, 201, r.ret)

PutEvent(c, id, body) == PutRoute(c, {"admin"}, "events", id, body)

DeleteEvent(c, id) == DeleteRoute(c, {"admin"}, "events", id)

-----------------------------------------------------------------------------
(* Requests: each handler runs to completion before the next one starts *)

\* A request: call.id and call.body are there when the route takes them.
Handle(request, r) ==
    /\ nOps < MaxOps
    /\ call' = request
    /\ Commit(r)
    /\ UNCHANGED <<session, loginFailed>>

Login ==
    \E c \in Clients : \E credentials \in Credentials :
        LET r == PostLogin(c, credentials)
        IN  /\ nOps < MaxOps
            /\ call' = [op |-> "POST /api/auth/login", client |-> c,
                        body |-> credentials]
            /\ Commit(r.reply)
            /\ session' = [session EXCEPT ![c] = r.user]
            /\ loginFailed' =
                  [loginFailed EXCEPT ![c] = r.reply.ret.status = 401]

\* POST /api/auth/logout: req.session.destroy
Logout ==
    \E c \in Clients :
        /\ nOps < MaxOps
        /\ call' = [op |-> "POST /api/auth/logout", client |-> c]
        /\ Commit(Reply(200, Message("Logged out successfully")))
        /\ session' = [session EXCEPT ![c] = Undefined]
        /\ UNCHANGED loginFailed

ReqPostUsers ==
    \E c \in Clients : \E body \in NewRows.users :
        Handle([op |-> "POST /api/users", client |-> c, body |-> body],
               PostUsers(c, body))

ReqPutUser ==
    \E c \in Clients : \E id \in IdArgs.users : \E body \in Partials.users :
        Handle([op |-> "PUT /api/users/:id", client |-> c, id |-> id,
                body |-> body],
               PutUser(c, id, body))

ReqDeleteUser ==
    \E c \in Clients : \E id \in IdArgs.users :
        Handle([op |-> "DELETE /api/users/:id", client |-> c, id |-> id],
               DeleteUser(c, id))

ReqGetStudent ==
    \E c \in Clients : \E id \in IdArgs.students :
        Handle([op |-> "GET /api/students/:id", client |-> c, id |-> id],
               GetStudent(c, id))

ReqPostStudents ==
    \E c \in Clients : \E body \in NewRows.students :
        Handle([op |-> "POST /api/students", client |-> c, body |-> body],
               PostStudents(c, body))

ReqPutStudent ==
    \E c \in Clients : \E id \in IdArgs.students : \E body \in Partials.students :
        Handle([op |-> "PUT /api/students/:id", client |-> c, id |-> id,
                body |-> body],
               PutStudent(c, id, body))

ReqDeleteStudent ==
    \E c \in Clients : \E id \in IdArgs.students :
        Handle([op |-> "DELETE /api/students/:id", client |-> c, id |-> id],
               DeleteStudent(c, id))

ReqGetFaculty ==
    \E c \in Clients : \E id \in IdArgs.faculty :
        Handle([op |-> "GET /api/faculty/:id", client |-> c, id |-> id],
               GetFaculty(c, id))

ReqPostFaculty ==
    \E c \in Clients : \E body \in NewRows.faculty :
        Handle([op |-> "POST /api/faculty", client |-> c, body |-> body],
               PostFaculty(c, body))

ReqPutFaculty ==
    \E c \in Clients : \E id \in IdArgs.faculty : \E body \in Partials.faculty :
        Handle([op |-> "PUT /api/faculty/:id", client |-> c, id |-> id,
                body |-> body],
               PutFaculty(c, id, body))

ReqDeleteFaculty ==
    \E c \in Clients : \E id \in IdArgs.faculty :
        Handle([op |-> "DELETE /api/faculty/:id", client |-> c, id |-> id],
               DeleteFaculty(c, id))

ReqGetCourse ==
    \E c \in Clients : \E id \in IdArgs.courses :
        Handle([op |-> "GET /api/courses/:id", client |-> c, id |-> id],
               GetCourse(c, id))

ReqPostCourses ==
    \E c \in Clients : \E body \in NewRows.courses :
        Handle([op |-> "POST /api/courses", client |-> c, body |-> body],
               PostCourses(c, body))

ReqPutCourse ==
    \E c \in Clients : \E id \in IdArgs.courses : \E body \in Partials.courses :
        Handle([op |-> "PUT /api/courses/:id", client |-> c, id |-> id,
                body |-> body],
               PutCourse(c, id, body))

ReqDeleteCourse ==
    \E c \in Clients : \E id \in IdArgs.courses :
        Handle([op |-> "DELETE /api/courses/:id", client |-> c, id |-> id],
               DeleteCourse(c, id))

ReqPostCourseAssignments ==
    \E c \in Clients : \E body \in NewRows.courseAssignments :
        Handle([op |-> "POST /api/course-assignments", client |-> c, body |-> body],
               PostCourseAssignments(c, body))

ReqDeleteCourseAssignment ==
    \E c \in Clients : \E id \in IdArgs.courseAssignments :
        Handle([op |-> "DELETE /api/course-assignments/:id", client |-> c, id |-> id],
               DeleteCourseAssignment(c, id))

ReqPostEnrollments ==
    \E c \in Clients : \E body \in NewRows.enrollments :
        Handle([op |-> "POST /api/enrollments", client |-> c, body |-> body],
               PostEnrollments(c, body))

ReqPutEnrollment ==
    \E c \in Clients : \E id \in IdArgs.enrollments : \E body \in Partials.enrollments :
        Handle([op |-> "PUT /api/enrollments/:id", client |-> c, id |-> id,
                body |-> body],
               PutEnrollment(c, id, body))

ReqDeleteEnrollment ==
    \E c \in Clients : \E id \in IdArgs.enrollments :
        Handle([op |-> "DELETE /api/enrollments/:id", client |-> c, id |-> id],
               DeleteEnrollment(c, id))

ReqPostAttendance ==
    \E c \in Clients : \E body \in NewRows.attendance :
        Handle([op |-> "POST /api/attendance", client |-> c, body |-> body],
               PostAttendance(c, body))

ReqPutAttendance ==
    \E c \in Clients : \E id \in IdArgs.attendance : \E body \in Partials.attendance :
        Handle([op |-> "PUT /api/attendance/:id", client |-> c, id |-> id,
                body |-> body],
               PutAttendance(c, id, body))

ReqDeleteAttendance ==
    \E c \in Clients : \E id \in IdArgs.attendance :
        Handle([op |-> "DELETE /api/attendance/:id", client |-> c, id |-> id],
               DeleteAttendance(c, id))

ReqPostGrades ==
    \E c \in Clients : \E body \in NewRows.grades :
        Handle([op |-> "POST /api/grades", client |-> c, body |-> body],
               PostGrades(c, body))

ReqPutGrade ==
    \E c \in Clients : \E id \in IdArgs.grades : \E body \in Partials.grades :
        Handle([op |-> "PUT /api/grades/:id", client |-> c, id |-> id,
                body |-> body],
               PutGrade(c, id, body))

ReqDeleteGrade ==
    \E c \in Clients : \E id \in IdArgs.grades :
        Handle([op |-> "DELETE /api/grades/:id", client |-> c, id |-> id],
               DeleteGrade(c, id))

ReqPostEvents ==
    \E c \in Clients : \E body \in NewRows.events :
        Handle([op |-> "POST /api/events", client |-> c, body |-> body],
               PostEvents(c, body))

ReqPutEvent ==
    \E c \in Clients : \E id \in IdArgs.events : \E body \in Partials.events :
        Handle([op |-> "PUT /api/events/:id", client |-> c, id |-> id,
                body |-> body],
               PutEvent(c, id, body))

ReqDeleteEvent ==
    \E c \in Clients : \E id \in IdArgs.events :
        Handle([op |-> "DELETE /api/events/:id", client |-> c, id |-> id],
               DeleteEvent(c, id))

RouteNext ==
    \/ Login
    \/ Logout
    \/ ReqPostUsers
    \/ ReqPutUser
    \/ ReqDeleteUser
    \/ ReqGetStudent
    \/ ReqPostStudents
    \/ ReqPutStudent
    \/ ReqDeleteStudent
    \/ ReqGetFaculty
    \/ ReqPostFaculty
    \/ ReqPutFaculty
    \/ ReqDeleteFaculty
    \/ ReqGetCourse
    \/ ReqPostCourses
    \/ ReqPutCourse
    \/ ReqDeleteCourse
    \/ ReqPostCourseAssignments
    \/ ReqDeleteCourseAssignment
    \/ ReqPostEnrollments
    \/ ReqPutEnrollment
    \/ ReqDeleteEnrollment
    \/ ReqPostAttendance
    \/ ReqPutAttendance
    \/ ReqDeleteAttendance
    \/ ReqPostGrades
    \/ ReqPutGrade
    \/ ReqDeleteGrade
    \/ ReqPostEvents
    \/ ReqPutEvent
    \/ ReqDeleteEvent

RouteSpec == Init /\ [][RouteNext]_vars

-----------------------------------------------------------------------------
(* The read operations of the storage interface *)

\* Bound on the length of a run that reads.
MaxQueryOps == 2

\* The seeded store after delete<Entity> has run for each id of ids.
SeedWithout(T, ids) ==
    [SeedStore EXCEPT ![T] = SelectSeq(@, LAMBDA e : e.k \notin ids)]

\* Stores that runs of deletes lead to from the seed: the seed itself, the
\* seed without its admin, and the seed with some or all of its attendance
\* rows or courses gone (attendance 2 of 3 and 1 of 3 present, and none;
\* courses active, active, active, pending, and none).
StoresAfterDeletes ==
    {SeedStore, SeedWithout("users", {1})}
    \cup {SeedWithout("attendance", ids) :
             ids \in {{3, 4}, {2, 3}, {1, 2, 3, 4, 5}}}
    \cup {SeedWithout("courses", ids) : ids \in {{5}, {1, 2, 3, 4, 5}}}

QueryInit ==
    /\ store \in StoresAfterDeletes
    /\ currentIds = SeedIds
    /\ session = [c \in Clients |-> Undefined]
    /\ call = [op |-> "init"]
    /\ ret = Undefined
    /\ issued = [c \in {CounterOf[T] : T \in Tables} |->
                    [i \in 1..(SeedIds[c] - 1) |-> i]]
    /\ nOps = 0
    /\ pending = [c \in Clients |-> Undefined]
    /\ loginFailed = [c \in Clients |-> FALSE]

\* The arguments that callers look rows up by.
LookupArgs ==
    [username |-> {"admin", "ADMIN", "emma.wilson", "nobody"},
     studentId |-> {"STU1001", "stu1001", "STU2001"},
     studentUserId |-> {4, 8},
     facultyId |-> {"FAC1001", "FAC2001"},
     facultyUserId |-> {2, 4},
     code |-> {"CS101", "cs101", "MATH101", ""}]

\* Values of new Date() at a call, on the scale of startDate.
Nows == {10, 15, 20, 25}

\* A read: the storage stays as it is.
Query(request, value) ==
    /\ nOps < MaxQueryOps
    /\ call' = request
    /\ Commit(Result(value, store, currentIds, issued))
    /\ UNCHANGED <<session, loginFailed>>

GetUserByCredentials(credentials) ==
    Query([op |-> "getUserByCredentials", credentials |-> credentials],
          getUserByCredentials(credentials))

GetUserByUsername(username) ==
    Query([op |-> "getUserByUsername", username |-> username],
          getUserByUsername(username))

GetStudentByStudentId(studentId) ==
    Query([op |-> "getStudentByStudentId", key |-> studentId],
          getStudentByStudentId(studentId))

GetStudentByUserId(userId) ==
    Query([op |-> "getStudentByUserId", key |-> userId],
          getStudentByUserId(userId))

GetFacultyByFacultyId(facultyId) ==
    Query([op |-> "getFacultyByFacultyId", key |-> facultyId],
          getFacultyByFacultyId(facultyId))

GetFacultyByUserId(userId) ==
    Query([op |-> "getFacultyByUserId", key |-> userId],
          getFacultyByUserId(userId))

GetCourseByCode(code) ==
    Query([op |-> "getCourseByCode", key |-> code], getCourseByCode(code))

GetAll(T) == Query([op |-> "getAll", table |-> T], getAll(T))

GetUpcomingEvents(now) ==
    Query([op |-> "getUpcomingEvents", now |-> now], getUpcomingEvents(now))

GetDashboardStats == Query([op |-> "getDashboardStats"], getDashboardStats)

QueryNext ==
    \/ \E T \in Tables : \E data \in NewRows[T] :
          nOps < MaxQueryOps /\ Create(T, data)
    \/ \E T \in Tables : \E id \in IdArgs[T] : \E partial \in Partials[T] :
          nOps < MaxQueryOps /\ Update(T, id, partial)
    \/ \E T \in Tables : \E id \in IdArgs[T] :
          nOps < MaxQueryOps /\ Delete(T, id)
    \/ \E credentials \in Credentials : GetUserByCredentials(credentials)
    \/ \E username \in LookupArgs.username : GetUserByUsername(username)
    \/ \E studentId \in LookupArgs.studentId :
          GetStudentByStudentId(studentId)
    \/ \E userId \in LookupArgs.studentUserId : GetStudentByUserId(userId)
    \/ \E facultyId \in LookupArgs.facultyId :
          GetFacultyByFacultyId(facultyId)
    \/ \E userId \in LookupArgs.facultyUserId : GetFacultyByUserId(userId)
    \/ \E code \in LookupArgs.code : GetCourseByCode(code)
    \/ \E T \in Tables : GetAll(T)
    \/ \E now \in Nows : GetUpcomingEvents(now)
    \/ GetDashboardStats

QuerySpec == QueryInit /\ [][QueryNext]_vars

-----------------------------------------------------------------------------
(* Two requests in progress at once.  A handler is an async function: it    *)
(* runs up to an await, and what follows the await runs later.  POST        *)
(* /api/users and POST /api/courses await the uniqueness lookup and then    *)
(* the insert; the steps below are the parts before and after the first     *)
(* await, and steps of different requests may alternate.                    *)

\* req.session.user as the login route sets it.
SessionUser(user) ==
    [id |-> user.id, username |-> user.username, role |-> user.role,
     name |-> user.name]

\* The storage after construction; each client has no session or has logged
\* in as the seeded admin or as a seeded student.
RaceInit ==
    /\ store = SeedStore
    /\ currentIds = SeedIds
    /\ session \in [Clients -> {Undefined, SessionUser(SeedUsers[1]),
                                SessionUser(SeedUsers[4])}]
    /\ call = [op |-> "init"]
    /\ ret = Undefined
    /\ issued = [c \in {CounterOf[T] : T \in Tables} |->
                    [i \in 1..(SeedIds[c] - 1) |-> i]]
    /\ nOps = 0
    /\ pending = [c \in Clients |-> Undefined]
    /\ loginFailed = [c \in Clients |-> FALSE]

\* Mutant of PostUsersAfterCheck: the username is looked up again at the
\* moment of the insert.
PostUsersAfterCheckLooksAgain(p) ==
    IF getUserByUsername(p.body.username) # Undefined
    THEN Reply(400, Message("Username already exists"))
    ELSE LET r == create("users", p.body)
         IN  ReplyAfter(r, 201, PublicUser(r.ret))

\* POST /api/users from the result of its lookup on: p.existing is the
\* handler's existingUser.
PostUsersAfterCheck(p) ==
    IF p.existing # Undefined
    THEN Reply(400, Message("Username already exists"))
    ELSE LET r == create("users", p.body)
         IN  ReplyAfter(r, 201, PublicUser(r.ret))

\* POST /api/courses from the result of its lookup on: p.existing is the
\* handler's existingCourse.
PostCoursesAfterCheck(p) ==
    IF p.existing # Undefined
    THEN Reply(400, Message("Course code already exists"))
    ELSE LET r == create("courses", p.body)
         IN  ReplyAfter(r, 201, r.ret)

\* The middleware and the handler up to its first await: the request is
\* answered by the middleware, or waits with the result of its lookup.
Check(c, route, body, existing) ==
    LET denied == requireRole(c, {"admin"})
    IN  /\ pending[c] = Undefined
        /\ call' = [op |-> route, client |-> c, body |-> body,
                    step |-> "check"]
        /\ Apply(IF denied # 0 THEN Denied(denied) ELSE Reply(0, Undefined))
        /\ pending' =
              [pending EXCEPT ![c] =
                  IF denied # 0
                  THEN [op |-> route, body |-> body, pc |-> "done",
                        response |-> Denied(denied).ret]
                  ELSE [op |-> route, body |-> body, pc |-> "checked",
                        existing |-> existing, checkedAt |-> nOps]]
        /\ UNCHANGED <<session, loginFailed>>

\* The handler from its first await to the response r.
Finish(c, route, r) ==
    /\ pending[c] # Undefined
    /\ pending[c].op = route
    /\ pending[c].pc = "checked"
    /\ call' = [op |-> route, client |-> c, body |-> pending[c].body,
                step |-> "insert"]
    /\ Apply(r)
    /\ pending' =
          [pending EXCEPT ![c] =
              [op |-> route, body |-> @.body, pc |-> "done",
               existing |-> @.existing, checkedAt |-> @.checkedAt,
               insertedAt |-> nOps, response |-> r.ret]]
    /\ UNCHANGED <<session, loginFailed>>

PostUsersCheck(c, userData) ==
    Check(c, "POST /api/users", userData, getUserByUsername(userData.username))

PostUsersInsert(c) ==
    Finish(c, "POST /api/users", PostUsersAfterCheck(pending[c]))

PostCoursesCheck(c, courseData) ==
    Check(c, "POST /api/courses", courseData, getCourseByCode(courseData.code))

PostCoursesInsert(c) ==
    Finish(c, "POST /api/courses", PostCoursesAfterCheck(pending[c]))

RaceNext ==
    \/ \E c \in Clients : \E userData \in NewRows.users :
          PostUsersCheck(c, userData)
    \/ \E c \in Clients : PostUsersInsert(c)
    \/ \E c \in Clients : \E courseData \in NewRows.courses :
          PostCoursesCheck(c, courseData)
    \/ \E c \in Clients : PostCoursesInsert(c)

RaceSpec == RaceInit /\ [][RaceNext]_vars

-----------------------------------------------------------------------------
(* The client's student and faculty forms.  A submission sends its requests *)
(* one after the other; apiRequest throws on a response that is not ok and  *)
(* onSubmit's catch block shows a message and sends nothing.                *)

\* What an admin types into the forms: the user fields and the profile
\* fields, with a student id or faculty id that is free or already taken.
FormValues ==
    [StudentForm |->
        {[username |-> "new.user", password |-> "student123",
          name |-> "New User", studentId |-> sid, yearLevel |-> 1,
          status |-> "active"] : sid \in {"STU1001", "STU2001"}},
     FacultyForm |->
        {[username |-> "new.prof", password |-> "faculty123",
          name |-> "New Professor", facultyId |-> fid, status |-> "active"] :
            fid \in {"FAC1001", "FAC2001"}}]

\* The fields that an admin changes in an edit dialog.
FormChanges ==
    [StudentForm |-> {[status |-> "inactive"], [studentId |-> "STU2001"]},
     FacultyForm |-> {[status |-> "on leave"], [facultyId |-> "FAC2001"]}]

\* The profile fields that a form sends: data without the user fields.
ProfileFields(form, data) ==
    IF form = "StudentForm"
    THEN [studentId |-> data.studentId, yearLevel |-> data.yearLevel,
          status |-> data.status]
    ELSE [facultyId |-> data.facultyId, status |-> data.status]

\* The body of the first request of the create path.
FormUserBody(role, data) ==
    [username |-> data.username, password |-> data.password,
     name |-> data.name, role |-> role]

\* After the first request: the submission goes on with the created user,
\* or ends when apiRequest threw.
AfterCreateUser(c, form, data, r) ==
    [pending EXCEPT ![c] =
        IF r.ret.status = 201
        THEN [form |-> form, data |-> data, newUser |-> r.ret.body]
        ELSE Undefined]

\* The body of the second request: userId is newUser.id.
ProfileBody(c) ==
    Spread([userId |-> pending[c].newUser.id],
           ProfileFields(pending[c].form, pending[c].data))

\* Mutant of StudentFormCreateProfile: when the second request is rejected
\* the user created by the first one is deleted again.
StudentFormCreateProfileRollsBack(c) ==
    /\ nOps < MaxOps
    /\ pending[c] # Undefined
    /\ pending[c].form = "StudentForm"
    /\ LET r == PostStudents(c, ProfileBody(c))
       IN  /\ call' = [op |-> "POST /api/students", client |-> c,
                       body |-> ProfileBody(c), form |-> "StudentForm"]
           /\ Apply(IF r.ret.status = 201 THEN r
                    ELSE ReplyAfter(delete("users", pending[c].newUser.id),
                                    r.ret.status, r.ret.body))
    /\ pending' = [pending EXCEPT ![c] = Undefined]
    /\ UNCHANGED <<session, loginFailed>>

\* onSubmit, create path, first request: createUserMutation.
StudentFormCreateUser(c, data) ==
    LET body == FormUserBody("student", data)
        r == PostUsers(c, body)
    IN  /\ nOps < MaxOps
        /\ pending[c] = Undefined
        /\ call' = [op |-> "POST /api/users", client |-> c, body |-> body,
                    form |-> "StudentForm"]
        /\ Apply(r)
        /\ pending' = AfterCreateUser(c, "StudentForm", data, r)
        /\ UNCHANGED <<session, loginFailed>>

\* onSubmit, create path, second request: createStudentMutation.
StudentFormCreateProfile(c) ==
    /\ nOps < MaxOps
    /\ pending[c] # Undefined
    /\ pending[c].form = "StudentForm"
    /\ call' = [op |-> "POST /api/students", client |-> c,
                body |-> ProfileBody(c), form |-> "StudentForm"]
    /\ Apply(PostStudents(c, ProfileBody(c)))
    /\ pending' = [pending EXCEPT ![c] = Undefined]
    /\ UNCHANGED <<session, loginFailed>>

\* onSubmit, create path, first request: createUserMutation.
FacultyFormCreateUser(c, data) ==
    LET body == FormUserBody("faculty", data)
        r == PostUsers(c, body)
    IN  /\ nOps < MaxOps
        /\ pending[c] = Undefined
        /\ call' = [op |-> "POST /api/users", client |-> c, body |-> body,
                    form |-> "FacultyForm"]
        /\ Apply(r)
        /\ pending' = AfterCreateUser(c, "FacultyForm", data, r)
        /\ UNCHANGED <<session, loginFailed>>

\* onSubmit, create path, second request: createFacultyMutation.
FacultyFormCreateProfile(c) ==
    /\ nOps < MaxOps
    /\ pending[c] # Undefined
    /\ pending[c].form = "FacultyForm"
    /\ call' = [op |-> "POST /api/faculty", client |-> c,
                body |-> ProfileBody(c), form |-> "FacultyForm"]
    /\ Apply(PostFaculty(c, ProfileBody(c)))
    /\ pending' = [pending EXCEPT ![c] = Undefined]
    /\ UNCHANGED <<session, loginFailed>>

\* onSubmit, edit path.  The detail page shows the profile with row id
\* shown, loaded by GET /api/<profiles>/:id; the dialog passes its userId as
\* initialData.userId and the form sends the update to that number.
\* The action is onSubmit being called: the validation of the typed values
\* by the form library happens before it and is not part of the source.
StudentFormEdit(c, shown, change) ==
    LET page == GetStudent(c, shown).ret
        initialData == page.body.student
        data == Spread(initialData, change)
        id == initialData.userId
        body == ProfileFields("StudentForm", data)
    IN  /\ nOps < MaxOps
        /\ pending[c] = Undefined
        /\ page.status = 200
        /\ call' = [op |-> "PUT /api/students/:id", client |-> c, id |-> id,
                    body |-> body, form |-> "StudentForm", shown |-> shown]
        /\ Commit(PutStudent(c, id, body))
        /\ UNCHANGED <<session, loginFailed>>

FacultyFormEdit(c, shown, change) ==
    LET page == GetFaculty(c, shown).ret
        initialData == page.body
        data == Spread(initialData, change)
        id == initialData.userId
        body == ProfileFields("FacultyForm", data)
    IN  /\ nOps < MaxOps
        /\ pending[c] = Undefined
        /\ page.status = 200
        /\ call' = [op |-> "PUT /api/faculty/:id", client |-> c, id |-> id,
                    body |-> body, form |-> "FacultyForm", shown |-> shown]
        /\ Commit(PutFaculty(c, id, body))
        /\ UNCHANGED <<session, loginFailed>>

FormNext ==
    \/ Login
    \/ Logout
    \/ \E c \in Clients : \E data \in FormValues.StudentForm :
          StudentFormCreateUser(c, data)
    \/ \E c \in Clients : StudentFormCreateProfile(c)
    \/ \E c \in Clients : \E data \in FormValues.FacultyForm :
          FacultyFormCreateUser(c, data)
    \/ \E c \in Clients : FacultyFormCreateProfile(c)
    \/ \E c \in Clients : \E shown \in IdArgs.students :
          \E change \in FormChanges.StudentForm :
             StudentFormEdit(c, shown, change)
    \/ \E c \in Clients : \E shown \in IdArgs.faculty :
          \E change \in FormChanges.FacultyForm :
             FacultyFormEdit(c, shown, change)

FormSpec == Init /\ [][FormNext]_vars

-----------------------------------------------------------------------------
(* Properties *)

\* The keys of a Map in insertion order.
KeyOrder(m) == [i \in 1..Len(m) |-> m[i].k]

StrictlyIncreasing(q) == \A i, j \in 1..Len(q) : i < j => q[i] < q[j]

\* C1: for each of the nine entity types the ids returned by create, the
\* seed's included, are strictly increasing in the order they were returned,
\* whatever updates and deletes come in between; the row a create returns
\* carries the id just issued.
C1_IdsStrictlyIncrease ==
    /\ \A c \in DOMAIN issued : StrictlyIncreasing(issued[c])
    /\ call.op = "create" =>
          LET ids == issued[CounterOf[call.table]]
          IN  /\ ret.id = ids[Len(ids)]
              /\ MapGet(store[call.table], ret.id) = ret

\* C1 witness: a create ran after an earlier row of its type was deleted.
C1_CreateAfterDelete ==
    /\ call.op = "create"
    /\ \E k \in 1..(ret.id - 1) : ~MapHas(store[call.table], k)

\* C2: update on an id that has a row replaces exactly the fields of the
\* partial, keeps the other fields, the other rows of the Map, the other
\* eight Maps and all counters, and returns the row now stored under id.
C2_UpdateMergesPartial ==
    [][(call'.op = "update" /\ MapHas(store[call'.table], call'.id)) =>
          LET T == call'.table
              old == MapGet(store[T], call'.id)
              new == MapGet(store'[T], call'.id)
          IN  /\ DOMAIN new = (DOMAIN old) \cup (DOMAIN call'.partial)
              /\ \A f \in DOMAIN new :
                    new[f] = IF f \in DOMAIN call'.partial
                             THEN call'.partial[f]
                             ELSE old[f]
              /\ KeyOrder(store'[T]) = KeyOrder(store[T])
              /\ \A k \in MapKeys(store[T]) \ {call'.id} :
                    MapGet(store'[T], k) = MapGet(store[T], k)
              /\ \A U \in Tables \ {T} : store'[U] = store[U]
              /\ currentIds' = currentIds
              /\ ret' = new]_vars

\* C2 witness: course 1 was updated with {status: "archived"} and kept its
\* code and title.
C2_StatusArchived ==
    /\ call.op = "update"
    /\ call.table = "courses"
    /\ call.id = 1
    /\ call.partial = [status |-> "archived"]
    /\ ret = [id |-> 1, code |-> "CS101",
              title |-> "Introduction to Computer Science",
              status |-> "archived"]
    /\ MapGet(store.courses, 1) = ret

\* C3: delete returns true exactly when the id had a row; afterwards the id
\* has none; deleting an absent id returns false and changes nothing.
C3_DeleteReportsExistence ==
    [][call'.op = "delete" =>
          LET T == call'.table
              had == MapHas(store[T], call'.id)
          IN  /\ ret' = had
              /\ MapGet(store'[T], call'.id) = Undefined
              /\ ~had => (store' = store /\ currentIds' = currentIds)]_vars

\* C3 witness: a second delete of an id that create had issued returned false.
C3_SecondDeleteFalse ==
    /\ call.op = "delete"
    /\ ret = FALSE
    /\ \E i \in 1..Len(issued[CounterOf[call.table]]) :
          issued[CounterOf[call.table]][i] = call.id

\* C4: update on an id without a row returns undefined, creates no row and
\* moves no counter.
C4_UpdateAbsentIsNoOp ==
    [][(call'.op = "update" /\ ~MapHas(store[call'.table], call'.id)) =>
          /\ ret' = Undefined
          /\ store' = store
          /\ currentIds' = currentIds]_vars

\* C4 witness: an update named an id that has no row.
C4_UpdateAbsent ==
    /\ call.op = "update"
    /\ ~MapHas(store[call.table], call.id)
    /\ ret = Undefined

\* The Map a DELETE route removes from.
DeleteRouteTable ==
    [r \in {"DELETE /api/users/:id", "DELETE /api/students/:id",
            "DELETE /api/faculty/:id", "DELETE /api/courses/:id",
            "DELETE /api/course-assignments/:id",
            "DELETE /api/enrollments/:id"} |->
        CASE r = "DELETE /api/users/:id" -> "users"
          [] r = "DELETE /api/students/:id" -> "students"
          [] r = "DELETE /api/faculty/:id" -> "faculty"
          [] r = "DELETE /api/courses/:id" -> "courses"
          [] r = "DELETE /api/course-assignments/:id" -> "courseAssignments"
          [] r = "DELETE /api/enrollments/:id" -> "enrollments"]

\* The rows of Map U whose foreign key fk names row id.
Dependents(s, U, fk, id) ==
    {i \in 1..Len(s[U]) : s[U][i].v[fk] = id}

\* The foreign keys that reference each Map: <<referencing Map, its column>>.
ReferencedBy ==
    [users |-> {<<"students", "userId">>, <<"faculty", "userId">>},
     students |-> {<<"enrollments", "studentId">>},
     faculty |-> {<<"courseAssignments", "facultyId">>},
     courses |-> {<<"courseAssignments", "courseId">>},
     courseAssignments |-> {<<"enrollments", "courseAssignmentId">>},
     enrollments |-> {<<"attendance", "enrollmentId">>,
                      <<"grades", "enrollmentId">>}]

\* C5: a DELETE request that removes a user, student, faculty member, course,
\* course assignment or enrollment removes that row alone: the other rows of
\* its Map, the other eight Maps and the counters stay as they were, and the
\* rows that referenced it stay stored with the same foreign key, which now
\* resolves to nothing.
C5_DeleteDoesNotCascade ==
    [][(call'.op \in DOMAIN DeleteRouteTable /\ ret'.status = 200) =>
          LET T == DeleteRouteTable[call'.op]
              id == call'.id
          IN  /\ MapKeys(store'[T]) = MapKeys(store[T]) \ {id}
              /\ \A k \in MapKeys(store'[T]) :
                    MapGet(store'[T], k) = MapGet(store[T], k)
              /\ \A U \in Tables \ {T} : store'[U] = store[U]
              /\ currentIds' = currentIds
              /\ \A ref \in ReferencedBy[T] :
                    /\ Dependents(store', ref[1], ref[2], id) =
                           Dependents(store, ref[1], ref[2], id)
                    /\ \A i \in Dependents(store, ref[1], ref[2], id) :
                           store'[ref[1]][i] = store[ref[1]][i]
              /\ MapGet(store'[T], id) = Undefined]_vars

\* C5 witness: course assignment 1 was deleted by its route and enrollments
\* 1 and 4 still reference it.
C5_DanglingEnrollments ==
    /\ call.op = "DELETE /api/course-assignments/:id"
    /\ call.id = 1
    /\ ret.status = 200
    /\ get("courseAssignments", 1) = Undefined
    /\ get("enrollments", 1) # Undefined
    /\ get("enrollments", 1).courseAssignmentId = 1
    /\ get("enrollments", 4) # Undefined
    /\ get("enrollments", 4).courseAssignmentId = 1

\* C6: reachable through the route handlers, no two users have usernames
\* equal ignoring case, no two students share a studentId, no two faculty
\* share a facultyId and no two courses share a code.
C6_UniqueKeys ==
    /\ \A i, j \in 1..Len(store.users) :
          i # j => ToLowerCase(store.users[i].v.username) #
                       ToLowerCase(store.users[j].v.username)
    /\ \A i, j \in 1..Len(store.students) :
          i # j => store.students[i].v.studentId # store.students[j].v.studentId
    /\ \A i, j \in 1..Len(store.faculty) :
          i # j => store.faculty[i].v.facultyId # store.faculty[j].v.facultyId
    /\ \A i, j \in 1..Len(store.courses) :
          i # j => store.courses[i].v.code # store.courses[j].v.code

\* C7: reachable through the route handlers, no two Student rows have the
\* same userId and no two Faculty rows have the same userId.
C7_OneProfilePerUser ==
    /\ \A i, j \in 1..Len(store.students) :
          i # j => store.students[i].v.userId # store.students[j].v.userId
    /\ \A i, j \in 1..Len(store.faculty) :
          i # j => store.faculty[i].v.userId # store.faculty[j].v.userId

\* Every id a Student row can be stored under, and the first one that is free.
StudentIds == 1..currentIds.student

\* The enrollments of student id whose course assignment is stored, in the
\* insertion order of the enrollments Map.
ResolvedEnrollments(id) ==
    SelectSeq(MapValues(store.enrollments),
              LAMBDA e : /\ e.studentId = id
                         /\ MapHas(store.courseAssignments,
                                   e.courseAssignmentId))

\* C8: for a student whose Student row and User row are stored,
\* getStudentDetails returns one block per enrollment of the student whose
\* course assignment is stored, in enrollment insertion order, and no block
\* for an enrollment whose course assignment is gone.
C8_DetailsOmitDangling ==
    \A id \in StudentIds :
        (/\ MapHas(store.students, id)
         /\ MapHas(store.users, MapGet(store.students, id).userId)) =>
            LET details == getStudentDetails(id)
                expected == ResolvedEnrollments(id)
            IN  /\ details # Null
                /\ Len(details.enrollments) = Len(expected)
                /\ \A i \in 1..Len(expected) :
                      /\ details.enrollments[i] # Null
                      /\ details.enrollments[i].enrollment = expected[i]

\* C8 witness: getStudentDetails(1) ran after course assignment 1 was deleted;
\* of the student's two enrollments the one in assignment 2 is still listed.
C8_OneOfTwoListed ==
    /\ call.op = "getStudentDetails"
    /\ call.id = 1
    /\ ret # Null
    /\ Len(getEnrollmentsByStudent(1)) = 2
    /\ get("courseAssignments", 1) = Undefined
    /\ Len(ret.enrollments) = 1
    /\ ret.enrollments[1].enrollment.courseAssignmentId = 2

\* The views of the three join operations for a client that is logged in.
StudentView(c, id) == GetStudent(c, id).ret
CourseView(c, id) == GetCourse(c, id).ret
FacultyView(c, id) == GetFaculty(c, id).ret

LoggedIn == {c \in Clients : session[c] # Undefined}

\* C9 as claimed: every join operation returns a result for an entity that
\* is stored, whatever referenced rows are missing.
C9_JoinsNeverAbort ==
    \A c \in LoggedIn :
        /\ \A id \in MapKeys(store.students) : StudentView(c, id).status = 200
        /\ \A id \in MapKeys(store.courses) : CourseView(c, id).status = 200
        /\ \A id \in MapKeys(store.faculty) : FacultyView(c, id).status = 200

\* C9 as amended: the course view and the faculty view return a result for
\* every stored course and faculty member, with one entry per course
\* assignment of it, whatever referenced rows are missing; the student view
\* returns a result for a stored student whose User row is stored and is
\* "not found" for a stored student whose User row is missing.
C9_JoinsTolerateMissingRows ==
    \A c \in LoggedIn :
        /\ \A id \in MapKeys(store.students) :
              StudentView(c, id).status =
                  IF MapHas(store.users, MapGet(store.students, id).userId)
                  THEN 200
                  ELSE 404
        /\ \A id \in MapKeys(store.courses) :
              /\ CourseView(c, id).status = 200
              /\ Len(CourseView(c, id).body.assignments) =
                     Len(getCourseAssignmentsByCourse(id))
        /\ \A id \in MapKeys(store.faculty) :
              /\ FacultyView(c, id).status = 200
              /\ Len(FacultyView(c, id).body.courses) =
                     Len(getCourseAssignmentsByFaculty(id))

\* C9 witness: the course view of course 1 was served after faculty member 1
\* was deleted; its assignment is listed with no faculty row and no name.
C9_CourseViewWithoutFaculty ==
    /\ call.op = "GET /api/courses/:id"
    /\ call.id = 1
    /\ ret.status = 200
    /\ get("faculty", 1) = Undefined
    /\ Len(ret.body.assignments) = 1
    /\ ret.body.assignments[1].facultyId = 1
    /\ ret.body.assignments[1].faculty = Undefined
    /\ ret.body.assignments[1].facultyName = Undefined

\* C10: getStudentDetails returns null for an id without a Student row and
\* for a Student row whose userId has no User row, whatever enrollments,
\* attendance rows and grades the student has; otherwise it returns the
\* student with the user.
C10_DetailsNullWithoutStudentOrUser ==
    \A id \in StudentIds :
        LET student == MapGet(store.students, id)
            missing == \/ student = Undefined
                       \/ ~MapHas(store.users, student.userId)
        IN  /\ missing => getStudentDetails(id) = Null
            /\ ~missing =>
                  /\ getStudentDetails(id) # Null
                  /\ getStudentDetails(id).user =
                         MapGet(store.users, student.userId)

\* C10 witness: getStudentDetails returned null for a stored student that has
\* enrollments, with attendance and grades, and whose user is gone.
C10_NullForStudentWithEnrollments ==
    /\ call.op = "getStudentDetails"
    /\ ret = Null
    /\ MapHas(store.students, call.id)
    /\ \E i \in 1..Len(store.enrollments) :
          /\ store.enrollments[i].v.studentId = call.id
          /\ Len(getAttendanceByEnrollment(store.enrollments[i].v.id)) > 0
          /\ Len(getGradesByEnrollment(store.enrollments[i].v.id)) > 0

\* The positions of the users whose username equals name ignoring case.
UsersNamed(name) ==
    {i \in 1..Len(store.users) :
        ToLowerCase(store.users[i].v.username) = ToLowerCase(name)}

\* C11: getUserByCredentials returns a user only if its username equals the
\* supplied one ignoring case and its password equals the supplied one
\* exactly, and undefined exactly when no stored user satisfies both; on the
\* seeded users {admin, admin123} returns the admin and admin with any other
\* password returns undefined.
C11_CredentialsMatch ==
    call.op = "getUserByCredentials" =>
        LET c == call.credentials
            M == {i \in UsersNamed(c.username) :
                     store.users[i].v.password = c.password}
        IN  /\ (ret = Undefined) <=> (M = {})
            /\ ret # Undefined => \E i \in M : ret = store.users[i].v
            /\ store.users = SeedStore.users /\ c.username = "admin" =>
                  IF c.password = "admin123"
                  THEN ret = SeedUsers[1]
                  ELSE ret = Undefined

\* C11 witness: the admin is stored and a login as admin with the password in
\* another letter case found nobody.
C11_WrongCasePassword ==
    /\ call.op = "getUserByCredentials"
    /\ call.credentials = [username |-> "admin", password |-> "Admin123"]
    /\ \E i \in 1..Len(store.users) :
          /\ store.users[i].v.username = "admin"
          /\ store.users[i].v.password = "admin123"
    /\ ret = Undefined

\* C12: getUserByUsername(name) returns a stored user whose username equals
\* name ignoring letter case whenever one is stored, and undefined otherwise,
\* after any creates, updates and deletes.
C12_UsernameIgnoresCase ==
    call.op = "getUserByUsername" =>
        IF UsersNamed(call.username) = {}
        THEN ret = Undefined
        ELSE \E i \in UsersNamed(call.username) : ret = store.users[i].v

\* C12 witness: a user was created as "Admin" and the lookup of "admin"
\* returned that user.
C12_AdminFoundAsLowerCase ==
    /\ call.op = "getUserByUsername"
    /\ call.username = "admin"
    /\ ret # Undefined
    /\ ret.username = "Admin"
    /\ ret.id >= SeedIds.user

\* The Map and the field that each secondary-key lookup reads.
LookupField ==
    [getStudentByStudentId |-> [table |-> "students", field |-> "studentId"],
     getStudentByUserId |-> [table |-> "students", field |-> "userId"],
     getFacultyByFacultyId |-> [table |-> "faculty", field |-> "facultyId"],
     getFacultyByUserId |-> [table |-> "faculty", field |-> "userId"],
     getCourseByCode |-> [table |-> "courses", field |-> "code"]]

\* The positions of the rows of Map m whose field f equals key.
RowsWith(m, f, key) == {i \in 1..Len(m) : m[i].v[f] = key}

\* C13: each of the five secondary-key lookups returns the earliest-inserted
\* stored row whose key equals the argument exactly, also when several rows
\* carry the key, and undefined when no row does.
C13_LookupReturnsFirstMatch ==
    call.op \in DOMAIN LookupField =>
        LET m == store[LookupField[call.op].table]
            M == RowsWith(m, LookupField[call.op].field, call.key)
        IN  IF M = {} THEN ret = Undefined
            ELSE ret = m[CHOOSE i \in M : \A j \in M : i <= j].v

\* C13 witness: two students carry the student id that was looked up.
C13_TwoRowsCarryKey ==
    /\ call.op = "getStudentByStudentId"
    /\ Cardinality(RowsWith(store.students, "studentId", call.key)) >= 2
    /\ ret # Undefined


\* The number of enrollments that reference a stored course assignment of
\* the course with this id.
EnrollmentCount(courseId) ==
    Cardinality({i \in 1..Len(store.enrollments) :
        \E j \in 1..Len(store.courseAssignments) :
            /\ store.courseAssignments[j].v.courseId = courseId
            /\ store.courseAssignments[j].v.id =
                  store.enrollments[i].v.courseAssignmentId})

\* The stored courses that rank before the one at position i: those with
\* more enrollments, and those with as many that were inserted earlier.
RankedBefore(i) ==
    {j \in 1..Len(store.courses) :
        LET ci == EnrollmentCount(store.courses[i].v.id)
            cj == EnrollmentCount(store.courses[j].v.id)
        IN  cj > ci \/ (cj = ci /\ j < i)}

\* C14: popularCourses is the first min(3, number of courses) entries of the
\* courses ordered by descending studentCount, courses with equal counts in
\* insertion order.
C14_PopularCoursesRanked ==
    call.op = "getDashboardStats" =>
        LET P == ret.popularCourses
            n == Len(store.courses)
        IN  /\ Len(P) = IF n < 3 THEN n ELSE 3
            /\ \A k \in 1..Len(P) :
                  \E i \in 1..n :
                     /\ Cardinality(RankedBefore(i)) = k - 1
                     /\ P[k].id = store.courses[i].v.id
                     /\ P[k].code = store.courses[i].v.code
                     /\ P[k].title = store.courses[i].v.title

\* C14 witness: more than three courses, the course inserted first is not
\* the most popular one, and the second and third entries have equal counts.
C14_ReorderedWithTie ==
    /\ call.op = "getDashboardStats"
    /\ Len(store.courses) > 3
    /\ ret.popularCourses[1].id # store.courses[1].v.id
    /\ ret.popularCourses[2].studentCount = ret.popularCourses[3].studentCount

\* C15: the studentCount of a course is the number of enrollments, of any
\* status, that reference a stored course assignment of that course;
\* enrollments of a deleted assignment count for no course.
C15_StudentCountIsEnrollments ==
    call.op = "getDashboardStats" =>
        \A k \in 1..Len(ret.popularCourses) :
            ret.popularCourses[k].studentCount =
                EnrollmentCount(ret.popularCourses[k].id)

\* C15 witness: an enrollment references a course assignment that is gone,
\* and three courses were reported.
C15_DanglingEnrollmentNotCounted ==
    /\ call.op = "getDashboardStats"
    /\ Len(ret.popularCourses) = 3
    /\ \E i \in 1..Len(store.enrollments) :
          ~MapHas(store.courseAssignments,
                  store.enrollments[i].v.courseAssignmentId)

\* r tenths is 100 * count / total rounded to one decimal.
IsRoundedPercentage(r, count, total) ==
    IF total = 0 THEN r = 0
    ELSE /\ 2 * (r * total - 1000 * count) <= total
         /\ 2 * (1000 * count - r * total) <= total

\* The number of rows of Map m whose status is one of statuses.
WithStatus(m, statuses) ==
    Cardinality({i \in 1..Len(m) : m[i].v.status \in statuses})

\* C16: attendanceRate is 100 times the number of attendance rows with status
\* present or late over the number of attendance rows, rounded to one decimal,
\* and 0 without attendance rows; present, present, late, absent, excused
\* give 60.0.
C16_AttendanceRate ==
    call.op = "getDashboardStats" =>
        /\ IsRoundedPercentage(ret.attendanceRate,
                               WithStatus(store.attendance, {"present", "late"}),
                               Len(store.attendance))
        /\ store.attendance = SeedStore.attendance => ret.attendanceRate = 600

\* C16 witness: the statistics were computed without any attendance row.
C16_NoAttendanceRows ==
    /\ call.op = "getDashboardStats"
    /\ store.attendance = <<>>
    /\ ret.attendanceRate = 0

\* C17: for each of active, pending and archived, count is the number of
\* courses with that status and percentage is count over the number of
\* courses times 100, rounded to one decimal, or 0 without courses.
C17_CourseStatistics ==
    call.op = "getDashboardStats" =>
        \A status \in {"active", "pending", "archived"} :
            LET stat == ret.courseStatistics[status]
            IN  /\ stat.count = WithStatus(store.courses, {status})
                /\ IsRoundedPercentage(stat.percentage, stat.count,
                                       Len(store.courses))

\* C17 witness: four courses, two of them active, give 50.0.
C17_TwoOfFourActive ==
    /\ call.op = "getDashboardStats"
    /\ Len(store.courses) = 4
    /\ WithStatus(store.courses, {"active"}) = 2
    /\ ret.courseStatistics.active = [count |-> 2, percentage |-> 500]

\* C18: totalStudents, totalFaculty and totalCourses are the numbers of rows
\* of the three tables and activeCourses is the number of courses whose
\* status is "active".
C18_Totals ==
    call.op = "getDashboardStats" =>
        /\ ret.totalStudents = Len(store.students)
        /\ ret.totalFaculty = Len(store.faculty)
        /\ ret.totalCourses = Len(store.courses)
        /\ ret.activeCourses = WithStatus(store.courses, {"active"})

\* C18 witness: the totals after a row was added to or removed from one of
\* the three tables, with a student that is not active.
C18_TotalsAfterChange ==
    /\ call.op = "getDashboardStats"
    /\ \/ Len(store.students) # Len(SeedStudents)
       \/ Len(store.faculty) # Len(SeedFaculty)
       \/ Len(store.courses) = Len(SeedCourses) + 1
    /\ WithStatus(store.students, {"active"}) < Len(store.students)

\* C19: getUpcomingEvents returns exactly the stored events whose startDate
\* is later than the time of the call, each once, in non-decreasing order of
\* startDate.
C19_UpcomingEvents ==
    call.op = "getUpcomingEvents" =>
        LET upcoming == {i \in 1..Len(store.events) :
                            store.events[i].v.startDate > call.now}
        IN  /\ Len(ret) = Cardinality(upcoming)
            /\ \A i \in upcoming : \E k \in 1..Len(ret) :
                  ret[k] = store.events[i].v
            /\ \A k \in 1..Len(ret) : \E i \in upcoming :
                  ret[k] = store.events[i].v
            /\ \A k \in 1..(Len(ret) - 1) :
                  ret[k].startDate <= ret[k + 1].startDate

\* C19 witness: one event starts at the time of the call and two start later.
C19_EventStartsNow ==
    /\ call.op = "getUpcomingEvents"
    /\ \E i \in 1..Len(store.events) :
          store.events[i].v.startDate = call.now
    /\ Len(ret) >= 2

\* C20: a Map lists its rows in the order they were created, each once,
\* whatever updates and deletes ran, and getAll returns the rows in that
\* order.
C20_GetAllInCreationOrder ==
    /\ \A T \in Tables :
          KeyOrder(store[T]) =
              SelectSeq(issued[CounterOf[T]],
                        LAMBDA id : MapHas(store[T], id))
    /\ call.op = "getAll" =>
          /\ Len(ret) = Len(store[call.table])
          /\ \A i \in 1..Len(ret) : ret[i] = store[call.table][i].v

\* C20 witness: getAll listed a row that an update changed in front of rows
\* created later.
C20_UpdatedRowKeepsPlace ==
    /\ call.op = "getAll"
    /\ call.table = "courses"
    /\ Len(ret) >= 2
    /\ ret[1].status = "archived"
    /\ ret[1].id < ret[2].id


\* C21: at the store, create always succeeds and adds exactly one row, the
\* data with the next id, also when a stored row already carries the same
\* username, studentId, facultyId or code; no other row or table changes.
C21_CreateNeverRejects ==
    [][call'.op = "create" =>
          LET T == call'.table
              id == currentIds[CounterOf[T]]
          IN  /\ ret' = Spread(call'.data, [id |-> id])
              /\ store'[T] = Append(store[T], [k |-> id, v |-> ret'])
              /\ \A U \in Tables \ {T} : store'[U] = store[U]]_vars

\* C21 witness: a course was created with a code that another course carries.
C21_DuplicateCodeInserted ==
    /\ call.op = "create"
    /\ call.table = "courses"
    /\ ret.code = call.data.code
    /\ Cardinality(RowsWith(store.courses, "code", ret.code)) >= 2


\* The unique key of the two bodies is the same.
SameKey(route, body1, body2) ==
    IF route = "POST /api/users"
    THEN ToLowerCase(body1.username) = ToLowerCase(body2.username)
    ELSE body1.code = body2.code

\* The requests of c1 and c2 carried the same key, both lookups found
\* nothing, and both lookups ran before either insert.
Raced(c1, c2) ==
    /\ c1 # c2
    /\ "insertedAt" \in DOMAIN pending[c1]
    /\ "insertedAt" \in DOMAIN pending[c2]
    /\ pending[c1].op = pending[c2].op
    /\ SameKey(pending[c1].op, pending[c1].body, pending[c2].body)
    /\ pending[c1].existing = Undefined
    /\ pending[c2].existing = Undefined
    /\ pending[c1].checkedAt < pending[c2].insertedAt
    /\ pending[c2].checkedAt < pending[c1].insertedAt

\* C22: when two POST /api/users with the same username, or two POST
\* /api/courses with the same code, alternate so that both uniqueness lookups
\* run before either insert, both are answered 201 and the store holds two
\* rows with that key.
C22_RaceInsertsBoth ==
    \A c1, c2 \in Clients :
        Raced(c1, c2) =>
            LET T == IF pending[c1].op = "POST /api/users"
                     THEN "users" ELSE "courses"
                r1 == pending[c1].response
                r2 == pending[c2].response
            IN  /\ r1.status = 201
                /\ r2.status = 201
                /\ r1.body.id # r2.body.id
                /\ MapHas(store[T], r1.body.id)
                /\ MapHas(store[T], r2.body.id)
                /\ SameKey(pending[c1].op, MapGet(store[T], r1.body.id),
                           MapGet(store[T], r2.body.id))

\* C22 witness: two POST /api/users for "new.user" raced and two users carry
\* that name.
C22_TwoUsersSameName ==
    /\ Raced("c1", "c2")
    /\ pending["c1"].op = "POST /api/users"
    /\ Cardinality(UsersNamed("new.user")) = 2


\* The table of profiles that a form writes.
ProfilesOf(form) == IF form = "StudentForm" THEN "students" ELSE "faculty"

\* C23: when the second request of the create flow of a student or faculty
\* form is rejected, the store stays as it is: the user that the first
\* request created is still stored, no profile references it, and the
\* submission sends no further request.
C23_RejectedProfileLeavesOrphanUser ==
    [][(/\ "form" \in DOMAIN call'
        /\ call'.op \in {"POST /api/students", "POST /api/faculty"}
        /\ ret'.status # 201) =>
          LET u == call'.body.userId
          IN  /\ store' = store
              /\ currentIds' = currentIds
              /\ MapHas(store'.users, u)
              /\ RowsWith(store'[ProfilesOf(call'.form)], "userId", u) = {}
              /\ pending'[call'.client] = Undefined]_vars

\* C23 witness: POST /api/students of a student form was answered 400 and
\* the user it names is stored without a student profile.
C23_OrphanUser ==
    /\ "form" \in DOMAIN call
    /\ call.op = "POST /api/students"
    /\ ret.status = 400
    /\ MapHas(store.users, call.body.userId)
    /\ call.body.userId >= SeedIds.user
    /\ RowsWith(store.students, "userId", call.body.userId) = {}

IsGuarded(request) ==
    request.op \notin {"init", "POST /api/auth/login", "POST /api/auth/logout"}

\* C24 as stated: a failed login answers 401, and from then on, until a
\* successful login on that session, every guarded route answers 401 and
\* leaves the store alone.
C24_FailedLoginLocksSession ==
    [][/\ (call'.op = "POST /api/auth/login"
             /\ getUserByCredentials(call'.body) = Undefined) =>
                ret'.status = 401
       /\ (IsGuarded(call') /\ loginFailed[call'.client]) =>
                ret'.status = 401 /\ store' = store]_vars

\* C24, amended: a failed login answers 401 and leaves the session's user
\* as it was and the store alone; on a session that holds no user every
\* guarded route answers 401 and leaves the store and the id counters alone.
C24_FailedLoginKeepsSession ==
    [][/\ (call'.op = "POST /api/auth/login"
             /\ getUserByCredentials(call'.body) = Undefined) =>
                /\ ret'.status = 401
                /\ session' = session
                /\ store' = store
                /\ currentIds' = currentIds
       /\ (IsGuarded(call') /\ session[call'.client] = Undefined) =>
                /\ ret'.status = 401
                /\ store' = store
                /\ currentIds' = currentIds]_vars

\* C24 witness: after a failed login on a session without a user, a guarded,
\* mutating request of that client was answered 401.
C24_RefusedAfterFailedLogin ==
    /\ IsGuarded(call)
    /\ call.op = "DELETE /api/users/:id"
    /\ loginFailed[call.client]
    /\ session[call.client] = Undefined
    /\ ret.status = 401

\* C25: in every table the row stored under key k has id k.
C25_IdEqualsKey ==
    \A T \in Tables : \A i \in 1..Len(store[T]) :
        store[T][i].v.id = store[T][i].k

\* C26: the role held in an authenticated session is the current role of a
\* stored user whose id is the session's user id.
C26_SessionRoleIsCurrent ==
    \A c \in Clients :
        session[c] # Undefined =>
            \E i \in 1..Len(store.users) :
                /\ store.users[i].v.id = session[c].id
                /\ store.users[i].v.role = session[c].role

\* C27: a request with no session or on a student's session changes no
\* table, except PUT /api/users/:id on the session's own user id, which
\* changes at most that user's row and never its role.
C27_StudentsChangeOnlyOwnUser ==
    [][(/\ IsGuarded(call')
        /\ \/ session[call'.client] = Undefined
           \/ session[call'.client].role = "student") =>
          \/ store' = store
          \/ /\ call'.op = "PUT /api/users/:id"
             /\ call'.id = session[call'.client].id
             /\ \A T \in Tables \ {"users"} : store'[T] = store[T]
             /\ \A k \in MapKeys(store.users) \ {call'.id} :
                   MapGet(store'.users, k) = MapGet(store.users, k)
             /\ MapGet(store'.users, call'.id).role =
                   MapGet(store.users, call'.id).role]_vars

\* C28: no student has two enrollments with status "enrolled" for the same
\* course assignment.
C28_EnrolledOncePerAssignment ==
    \A i, j \in 1..Len(store.enrollments) :
        (/\ i # j
         /\ store.enrollments[i].v.studentId = store.enrollments[j].v.studentId
         /\ store.enrollments[i].v.courseAssignmentId =
                store.enrollments[j].v.courseAssignmentId
         /\ store.enrollments[i].v.status = "enrolled") =>
            store.enrollments[j].v.status # "enrolled"

\* The parent rows that the body of a POST request references: pairs of
\* table and id.
ParentsOf(request) ==
    IF request.op = "POST /api/enrollments"
    THEN {<<"students", request.body.studentId>>,
          <<"courseAssignments", request.body.courseAssignmentId>>}
    ELSE IF request.op \in {"POST /api/attendance", "POST /api/grades"}
    THEN {<<"enrollments", request.body.enrollmentId>>}
    ELSE IF request.op = "POST /api/course-assignments"
    THEN {<<"courses", request.body.courseId>>,
          <<"faculty", request.body.facultyId>>}
    ELSE {}

ParentMissing(request, s) ==
    \E p \in ParentsOf(request) : ~MapHas(s[p[1]], p[2])

\* C29: POST /api/enrollments, /api/attendance, /api/grades and
\* /api/course-assignments insert a row only when every parent row that the
\* body references is stored; when a parent is missing the handler answers
\* 400 and leaves every table and every id counter unchanged.
C29_InsertOnlyWithParents ==
    [][ParentsOf(call') # {} =>
          /\ (ret'.status = 201 \/ store' # store) =>
                ~ParentMissing(call', store)
          /\ (ParentMissing(call', store) /\ ret'.status \notin {401, 403}) =>
                /\ ret'.status = 400
                /\ store' = store
                /\ currentIds' = currentIds]_vars

\* C29 witness: POST /api/attendance for an enrollment that was deleted was
\* answered 400.
C29_RefusedWithoutParent ==
    /\ call.op = "POST /api/attendance"
    /\ call.body.enrollmentId < currentIds.enrollment
    /\ ParentMissing(call, store)
    /\ ret.status = 400


====
